---------------------------- MODULE Spec2Model ----------------------------
(***************************************************************************)
(* The simulation step of the food-chain arcade game (engine.ts):          *)
(* createInitialGameState, startNewRun, setMode, setDifficulty, tickGame.  *)
(*                                                                         *)
(* Numbers are fixed point, because the engine computes in floats:         *)
(*   positions and radii   whole arena units                               *)
(*   velocities            tenths of a unit per second                     *)
(*   times                 milliseconds (run.timeSeconds, timers, dt)      *)
(*   factors, multipliers  hundredths                                      *)
(*   turn rates            ten-thousandths                                 *)
(*   threat intensity      thousandths                                     *)
(* Math.random() draws are choices from small sample sets.                 *)
(***************************************************************************)
EXTENDS Integers, Sequences, FiniteSets, TLC

VARIABLES
    elapsedMs,      \* GameState.elapsedMs
    mode,           \* GameState.mode
    difficulty,     \* GameState.difficulty (the profile record)
    player,         \* GameState.player
    entities,       \* GameState.entities
    run,            \* GameState.run
    nextEntityId,   \* GameState.nextEntityId
    spawnTimers,    \* GameState.spawnTimers
    apexThreat,     \* GameState.apexThreat
    pendingEvents,  \* GameState.pendingEvents
    host,           \* App: startRunRef, restartRunRef, togglePauseRef, the selected difficulty; KeyboardInput
    op,             \* history: the engine function applied last
    collisions,     \* history: what handlePlayerCollision saw and did, per entity, in the last tick
    ticks,          \* history: number of tickGame calls so far
    restartAsked    \* history: the mode in which the pending restart request was made, or "none"

vars == <<elapsedMs, mode, difficulty, player, entities, run, nextEntityId,
          spawnTimers, apexThreat, pendingEvents, host, op, collisions, ticks, restartAsked>>

---------------------------------------------------------------------------
(* Bounds of the model *)

MaxTicks == 2

---------------------------------------------------------------------------
(* Constants of engine.ts *)

ARENA == [width |-> 960, height |-> 540]
BASE_PLAYER_RADIUS == 14
MAX_SIZE_TIER == 5
APEX_HIT_COOLDOWN_SECONDS == 450
APEX_FLASH_SECONDS == 180
GROWTH_STEP == 1000
RESPAWN_CULL_RADIUS == 120
MAX_DT == 50
NPC_SIZE_CLASSES == {1, 2, 3, 4}
EntityKinds == <<"prey", "predator", "apex", "hazard">>

---------------------------------------------------------------------------
(* config.ts is not among the sources: three profiles with the fields of   *)
(* DifficultyProfile (types.ts) that the engine reads.                     *)

difficulties ==
    [easy |->
        [key |-> "easy", scoreMultiplier |-> 85, startingLives |-> 4,
         playerSpeed |-> 2600, playerTurnLerp |-> 22,
         playerHitboxScale |-> 90, enemyHitboxScale |-> 90,
         preySpawnPerSecond |-> 140, predatorSpawnPerSecond |-> 35,
         apexSpawnPerSecond |-> 5, hazardSpawnPerSecond |-> 0,
         maxPrey |-> 3, maxPredators |-> 2, maxApex |-> 1, maxHazards |-> 1,
         predatorAggression |-> 45, apexAggression |-> 50,
         apexMaxHealth |-> 2, apexTailHitLeniency |-> 130,
         graceSecondsAfterRespawn |-> 2500, extraLifeScoreStep |-> 5000],
     normal |->
        [key |-> "normal", scoreMultiplier |-> 100, startingLives |-> 3,
         playerSpeed |-> 2500, playerTurnLerp |-> 20,
         playerHitboxScale |-> 100, enemyHitboxScale |-> 100,
         preySpawnPerSecond |-> 120, predatorSpawnPerSecond |-> 50,
         apexSpawnPerSecond |-> 7, hazardSpawnPerSecond |-> 15,
         maxPrey |-> 3, maxPredators |-> 2, maxApex |-> 1, maxHazards |-> 1,
         predatorAggression |-> 70, apexAggression |-> 75,
         apexMaxHealth |-> 3, apexTailHitLeniency |-> 100,
         graceSecondsAfterRespawn |-> 2000, extraLifeScoreStep |-> 6000],
     hard |->
        [key |-> "hard", scoreMultiplier |-> 125, startingLives |-> 2,
         playerSpeed |-> 2400, playerTurnLerp |-> 18,
         playerHitboxScale |-> 100, enemyHitboxScale |-> 110,
         preySpawnPerSecond |-> 100, predatorSpawnPerSecond |-> 70,
         apexSpawnPerSecond |-> 10, hazardSpawnPerSecond |-> 20,
         maxPrey |-> 3, maxPredators |-> 3, maxApex |-> 2, maxHazards |-> 2,
         predatorAggression |-> 95, apexAggression |-> 100,
         apexMaxHealth |-> 4, apexTailHitLeniency |-> 85,
         graceSecondsAfterRespawn |-> 1500, extraLifeScoreStep |-> 8000]]

DifficultyKeys == {"easy", "normal", "hard"}

---------------------------------------------------------------------------
(* math.ts *)

Max(a, b) == IF a >= b THEN a ELSE b
Min(a, b) == IF a <= b THEN a ELSE b
Abs(a) == IF a < 0 THEN -a ELSE a
Sign(a) == IF a > 0 THEN 1 ELSE IF a < 0 THEN -1 ELSE 0

\* a / b rounded toward zero, b > 0
Quot(a, b) == IF a >= 0 THEN a \div b ELSE -((-a) \div b)

\* Math.floor(a / b), b > 0
Floor(a, b) == a \div b

clamp(v, lo, hi) == Max(lo, Min(hi, v))

\* lerp(a, b, t) with t = tNum / tDen
lerp(a, b, tNum, tDen) == a + Quot((b - a) * tNum, tDen)

RECURSIVE SqrtSearch(_, _, _)
SqrtSearch(n, lo, hi) ==
    IF lo >= hi THEN lo
    ELSE LET mid == (lo + hi + 1) \div 2
         IN  IF mid * mid <= n THEN SqrtSearch(n, mid, hi)
             ELSE SqrtSearch(n, lo, mid - 1)

\* floor of the square root, 0 <= n < 2^30
ISqrt(n) == SqrtSearch(n, 0, 32767)

len(v) == ISqrt(v.x * v.x + v.y * v.y)

add(a, b) == [x |-> a.x + b.x, y |-> a.y + b.y]
sub(a, b) == [x |-> a.x - b.x, y |-> a.y - b.y]

\* scale(normalize(v), s): the vector of length s along v, the zero vector for v = 0
normalizeScale(v, s) ==
    LET l == len(v)
    IN  IF l > 0 THEN [x |-> Quot(v.x * s, l), y |-> Quot(v.y * s, l)]
        ELSE [x |-> 0, y |-> 0]

\* scale(v, dt): displacement in units of a velocity in tenths per second over dt ms
displacement(v, dt) == [x |-> Quot(v.x * dt, 10000), y |-> Quot(v.y * dt, 10000)]

\* dist(a, b) > r
distGreater(a, b, r) == (a.x - b.x) * (a.x - b.x) + (a.y - b.y) * (a.y - b.y) > r * r

\* dist(a, b) < r
distLess(a, b, r) == (a.x - b.x) * (a.x - b.x) + (a.y - b.y) * (a.y - b.y) < r * r

\* rnd(lo, hi) at the draw u (hundredths of the way from lo to hi)
rnd(lo, hi, u) == lo + Quot((hi - lo) * u, 100)

---------------------------------------------------------------------------
(* engine.ts: tables *)

\* playerRadiusForSizeTier growing by a fixed step per tier from the base radius
playerRadiusBySteps(sizeTier) == BASE_PLAYER_RADIUS + 4 * (sizeTier - 2)

playerRadiusForSizeTier(sizeTier) ==
    LET t == Max(1, Min(MAX_SIZE_TIER, sizeTier))
    IN  CASE t = 1 -> 9
          [] t = 2 -> 12
          [] t = 3 -> 17
          [] t = 4 -> 22
          [] t = 5 -> 31
          [] OTHER -> BASE_PLAYER_RADIUS

\* entitySpeed(kind, aggression) at the draw u, in tenths per second
entitySpeed(kind, aggression, u) ==
    CASE kind = "prey" -> rnd(700, 1300, u)
      [] kind = "predator" -> Quot(rnd(950, 1700, u) * (8000 + aggression * 50), 10000)
      [] kind = "apex" -> Quot(rnd(1400, 2100, u) * (9000 + aggression * 50), 10000)
      [] OTHER -> rnd(550, 1050, u)

\* npcCruiseSpeed(sizeClass) at the draw u, in tenths per second
npcCruiseSpeed(sizeClass, u) ==
    CASE sizeClass = 1 -> rnd(950, 1450, u)
      [] sizeClass = 2 -> rnd(850, 1300, u)
      [] sizeClass = 3 -> rnd(780, 1220, u)
      [] sizeClass = 4 -> rnd(720, 1120, u)
      [] OTHER -> rnd(700, 1000, u)

\* chaseSpeed(kind, aggression), in tenths per second
chaseSpeed(kind, aggression) ==
    IF kind = "predator" THEN 950 + Quot(aggression * 550, 100)
    ELSE IF kind = "apex" THEN 1200 + Quot(aggression * 750, 100)
    ELSE 0

npcRadiusForSizeClass(sizeClass, u) ==
    CASE sizeClass = 1 -> rnd(7, 10, u)
      [] sizeClass = 2 -> rnd(10, 14, u)
      [] sizeClass = 3 -> rnd(14, 19, u)
      [] sizeClass = 4 -> rnd(19, 25, u)
      [] OTHER -> rnd(26, 36, u)

\* sizeClass 0 stands for an undefined sizeClass
entityRadius(kind, sizeClass, u) ==
    CASE kind \in {"prey", "predator"} ->
            npcRadiusForSizeClass(
                IF sizeClass # 0 THEN sizeClass ELSE IF kind = "prey" THEN 1 ELSE 3, u)
      [] kind = "apex" -> npcRadiusForSizeClass(5, u)
      [] OTHER -> rnd(14, 18, u)

\* fishExtents(radius, scaleFactor), in ten-thousandths of a unit
fishExtents(radius, scaleFactor) ==
    [rx |-> radius * 134 * scaleFactor,
     ry |-> radius * 78 * scaleFactor]

countByKind(s, kind) == Cardinality({i \in DOMAIN s.entities : s.entities[i].kind = kind})

spawnCapForKind(s, kind) ==
    LET d == s.difficulty
    IN  IF kind = "prey" THEN d.maxPrey
        ELSE IF kind = "predator" THEN d.maxPredators
        ELSE IF kind = "apex" THEN d.maxApex
        ELSE d.maxHazards

\* spawns per second, in hundredths
spawnRateForKind(s, kind) ==
    LET d == s.difficulty
    IN  IF kind = "prey" THEN d.preySpawnPerSecond
        ELSE IF kind = "predator" THEN d.predatorSpawnPerSecond
        ELSE IF kind = "apex" THEN d.apexSpawnPerSecond
        ELSE d.hazardSpawnPerSecond

isKindUnlocked(s, kind) ==
    LET t == s.run.timeSeconds
        sc == s.run.score
        size == s.player.sizeTier
        key == s.difficulty.key
    IN  CASE kind = "prey" -> TRUE
          [] kind = "predator" -> t >= 2000
          [] kind = "apex" ->
                IF key = "easy" THEN t >= 24000
                ELSE IF key = "normal" THEN t >= 20000
                ELSE t >= 16000
          [] kind = "hazard" ->
                IF key = "easy" THEN t >= 38000 /\ (sc >= 2500 \/ size >= 4)
                ELSE IF key = "normal" THEN t >= 30000 /\ (sc >= 3200 \/ size >= 4)
                ELSE t >= 22000 /\ (sc >= 4000 \/ size >= 4)
          [] OTHER -> TRUE

\* pickNpcSizeForSpawn without its early-run rows: the tier rows at every run time
pickNpcSizeByTierOnly(s, channel, r) ==
    IF channel = "prey" THEN
        IF s.player.sizeTier <= 1 THEN (IF r < 78 THEN 1 ELSE 2)
        ELSE IF s.player.sizeTier = 2 THEN (IF r < 58 THEN 1 ELSE IF r < 93 THEN 2 ELSE 3)
        ELSE IF s.player.sizeTier = 3 THEN
            (IF r < 18 THEN 1 ELSE IF r < 52 THEN 2 ELSE IF r < 92 THEN 3 ELSE 4)
        ELSE (IF r < 22 THEN 2 ELSE IF r < 62 THEN 3 ELSE 4)
    ELSE
        IF s.player.sizeTier <= 1 THEN (IF r < 78 THEN 2 ELSE 3)
        ELSE IF s.player.sizeTier = 2 THEN (IF r < 50 THEN 2 ELSE IF r < 92 THEN 3 ELSE 4)
        ELSE IF s.player.sizeTier = 3 THEN (IF r < 42 THEN 3 ELSE 4)
        ELSE (IF r < 52 THEN 3 ELSE 4)

\* pickNpcSizeForSpawn whose early-run rows end after 1.2 s and 1.0 s
pickNpcSizeShortEarlyRun(s, channel, r) ==
    IF channel = "prey" /\ s.run.timeSeconds < 1200 THEN (IF r < 80 THEN 1 ELSE 2)
    ELSE IF channel # "prey" /\ s.run.timeSeconds < 1000 THEN 2
    ELSE pickNpcSizeByTierOnly(s, channel, r)

\* pickNpcSizeForSpawn(state, channel) at the draw r (hundredths)
pickNpcSizeForSpawn(s, channel, r) ==
    LET p == s.player.sizeTier
        t == s.run.timeSeconds
    IN  IF channel = "prey" THEN
            IF t < 12000 THEN (IF r < 80 THEN 1 ELSE 2)
            ELSE IF p <= 1 THEN (IF r < 78 THEN 1 ELSE 2)
            ELSE IF p = 2 THEN (IF r < 58 THEN 1 ELSE IF r < 93 THEN 2 ELSE 3)
            ELSE IF p = 3 THEN
                (IF r < 18 THEN 1 ELSE IF r < 52 THEN 2 ELSE IF r < 92 THEN 3 ELSE 4)
            ELSE (IF r < 22 THEN 2 ELSE IF r < 62 THEN 3 ELSE 4)
        ELSE
            IF t < 10000 THEN 2
            ELSE IF p <= 1 THEN (IF r < 78 THEN 2 ELSE 3)
            ELSE IF p = 2 THEN (IF r < 50 THEN 2 ELSE IF r < 92 THEN 3 ELSE 4)
            ELSE IF p = 3 THEN (IF r < 42 THEN 3 ELSE 4)
            ELSE (IF r < 52 THEN 3 ELSE 4)

\* isNpcEdible with a strict comparison: a fish of the player's own size is not food
isNpcEdibleStrict(playerTier, npcSize) == npcSize < playerTier

isNpcEdible(playerTier, npcSize) == npcSize <= playerTier

doesNpcAttackPlayer(playerTier, npcSize) == npcSize > playerTier

canEat(playerTier, entity) ==
    IF entity.kind \in {"prey", "predator"} /\ entity.sizeClass # 0
    THEN isNpcEdible(playerTier, entity.sizeClass)
    ELSE FALSE

\* pointsForEat rounding to the nearest point where the code rounds down
pointsForEatRounded(entity, multiplier) ==
    LET base == IF entity.kind \in {"prey", "predator"} /\ entity.sizeClass # 0
                THEN (IF entity.sizeClass = 1 THEN 90
                      ELSE IF entity.sizeClass = 2 THEN 135
                      ELSE IF entity.sizeClass = 3 THEN 175 ELSE 225)
                ELSE 0
    IN  Floor(base * multiplier + 50, 100)

pointsForEat(entity, multiplier) ==
    LET base == IF entity.kind \in {"prey", "predator"} /\ entity.sizeClass # 0
                THEN (IF entity.sizeClass = 1 THEN 90
                      ELSE IF entity.sizeClass = 2 THEN 135
                      ELSE IF entity.sizeClass = 3 THEN 175 ELSE 225)
                ELSE 0
    IN  Floor(base * multiplier, 100)

pointsForApexTailHit(multiplier) == Floor(500 * multiplier, 100)

\* apexTailDamageForPlayer without the tiers
apexTailDamageFlat(playerTier) == 1

apexTailDamageForPlayer(playerTier) ==
    IF playerTier >= 5 THEN 3 ELSE IF playerTier >= 3 THEN 2 ELSE 1

\* milestoneForScore rounding up
milestoneForScoreCeil(score) == (score + 999) \div 1000

milestoneForScore(score) == Floor(score, 1000)

\* the ellipse-sum test, half-extents in tenths of a unit, each quotient in thousandths
overlapsFishFootprint(pl, entity, playerScale, enemyScale) ==
    LET p == fishExtents(pl.radius, playerScale)
        e0 == IF entity.kind = "hazard"
              THEN [rx |-> entity.radius * enemyScale * 100,
                    ry |-> entity.radius * enemyScale * 100]
              ELSE fishExtents(entity.radius, enemyScale)
        e == IF entity.kind = "apex"
             THEN [rx |-> Quot(e0.rx * 118, 100), ry |-> Quot(e0.ry * 96, 100)]
             ELSE e0
        dx == Abs(pl.pos.x - entity.pos.x) * 10
        dy == Abs(pl.pos.y - entity.pos.y) * 10
        rx == Quot(p.rx + e.rx, 1000)
        ry == Quot(p.ry + e.ry, 1000)
    IN  /\ dx <= rx
        /\ dy <= ry
        /\ Quot(dx * dx * 1000, rx * rx) + Quot(dy * dy * 1000, ry * ry) <= 1000

---------------------------------------------------------------------------
(* engine.ts: construction and the host's requests *)

createInitialGameState(difficultyKey) ==
    LET d == difficulties[difficultyKey]
    IN  [elapsedMs |-> 0,
         mode |-> "title",
         difficulty |-> d,
         player |-> [pos |-> [x |-> Quot(ARENA.width * 22, 100), y |-> Quot(ARENA.height * 50, 100)],
                     vel |-> [x |-> 0, y |-> 0],
                     radius |-> playerRadiusForSizeTier(2),
                     sizeTier |-> 2,
                     lives |-> d.startingLives,
                     invulnerableUntil |-> 0],
         entities |-> <<>>,
         run |-> [score |-> 0, timeSeconds |-> 0, preyEaten |-> 0, predatorsAvoided |-> 0,
                  nextGrowthScore |-> 1000, nextExtraLifeScore |-> 6000, milestone |-> 0],
         nextEntityId |-> 1,
         spawnTimers |-> [prey |-> 0, predator |-> 0, apex |-> 0, hazard |-> 0],
         apexThreat |-> [activeCount |-> 0, intensity |-> 0, lastHitAt |-> -999000, lastKillAt |-> -999000],
         pendingEvents |-> <<>>]

\* startNewRun carrying the run's progress over
startNewRunKeepingProgress(s) ==
    [createInitialGameState(s.difficulty.key) EXCEPT !.mode = "playing", !.run = s.run]

startNewRun(s) == [createInitialGameState(s.difficulty.key) EXCEPT !.mode = "playing"]

setMode(s, m) == [s EXCEPT !.mode = m]

\* setDifficulty swapping the profile under the state it is given
setDifficultyInPlace(s, difficultyKey) == [s EXCEPT !.difficulty = difficulties[difficultyKey]]

setDifficulty(s, difficultyKey) == [createInitialGameState(difficultyKey) EXCEPT !.mode = "title"]

---------------------------------------------------------------------------
(* engine.ts: spawning *)

wrap(e) ==
    LET x1 == IF e.pos.x < -e.radius THEN ARENA.width + e.radius ELSE e.pos.x
        x2 == IF x1 > ARENA.width + e.radius THEN -e.radius ELSE x1
        y1 == IF e.pos.y < -e.radius THEN ARENA.height + e.radius ELSE e.pos.y
        y2 == IF y1 > ARENA.height + e.radius THEN -e.radius ELSE y1
    IN  [e EXCEPT !.pos = [x |-> x2, y |-> y2]]

\* spawnAtEdge giving every kind a combat record
spawnAtEdgeAllArmed(s, kind, d) ==
    LET npcSize == IF kind \in {"prey", "predator"} THEN pickNpcSizeForSpawn(s, kind, d.r) ELSE 0
        radius == entityRadius(kind, npcSize, d.radius)
        pos == CASE d.edge = 0 -> [x |-> -radius, y |-> rnd(0, ARENA.height, d.along)]
                 [] d.edge = 1 -> [x |-> ARENA.width + radius, y |-> rnd(0, ARENA.height, d.along)]
                 [] d.edge = 2 -> [x |-> rnd(0, ARENA.width, d.along), y |-> -radius]
                 [] d.edge = 3 -> [x |-> rnd(0, ARENA.width, d.along), y |-> ARENA.height + radius]
                 [] OTHER -> [x |-> 0, y |-> 0]
        toCenter == normalizeScale(sub([x |-> ARENA.width \div 2, y |-> ARENA.height \div 2], pos), 1000)
        dif == s.difficulty
        aggr == IF kind = "predator" THEN dif.predatorAggression
                ELSE IF kind = "apex" THEN dif.apexAggression ELSE 20
        randomBias == normalizeScale([x |-> d.hx, y |-> d.hy], 1000)
        mix == [x |-> lerp(randomBias.x, toCenter.x, aggr, 100),
                y |-> lerp(randomBias.y, toCenter.y, aggr, 100)]
        speed == IF npcSize # 0 THEN npcCruiseSpeed(npcSize, d.speed) ELSE entitySpeed(kind, aggr, d.speed)
    IN  [id |-> s.nextEntityId,
         kind |-> kind,
         sizeClass |-> IF kind = "apex" THEN 5 ELSE npcSize,
         pos |-> pos,
         vel |-> normalizeScale(mix, speed),
         radius |-> radius,
         combat |-> <<[maxHealth |-> dif.apexMaxHealth,
                       health |-> dif.apexMaxHealth,
                       tailWindowBias |-> rnd(52, 68, d.tail),
                       flashUntil |-> -1000,
                       lastHitAt |-> -999000]>>]

\* spawnAtEdge(state, kind) at the draws d: r (size roll), edge, radius, along,
\* hx and hy (random heading), speed, tail
spawnAtEdge(s, kind, d) ==
    LET npcSize == IF kind \in {"prey", "predator"} THEN pickNpcSizeForSpawn(s, kind, d.r) ELSE 0
        radius == entityRadius(kind, npcSize, d.radius)
        pos == CASE d.edge = 0 -> [x |-> -radius, y |-> rnd(0, ARENA.height, d.along)]
                 [] d.edge = 1 -> [x |-> ARENA.width + radius, y |-> rnd(0, ARENA.height, d.along)]
                 [] d.edge = 2 -> [x |-> rnd(0, ARENA.width, d.along), y |-> -radius]
                 [] d.edge = 3 -> [x |-> rnd(0, ARENA.width, d.along), y |-> ARENA.height + radius]
                 [] OTHER -> [x |-> 0, y |-> 0]
        toCenter == normalizeScale(sub([x |-> ARENA.width \div 2, y |-> ARENA.height \div 2], pos), 1000)
        dif == s.difficulty
        aggr == IF kind = "predator" THEN dif.predatorAggression
                ELSE IF kind = "apex" THEN dif.apexAggression ELSE 20
        randomBias == normalizeScale([x |-> d.hx, y |-> d.hy], 1000)
        mix == [x |-> lerp(randomBias.x, toCenter.x, aggr, 100),
                y |-> lerp(randomBias.y, toCenter.y, aggr, 100)]
        speed == IF npcSize # 0 THEN npcCruiseSpeed(npcSize, d.speed) ELSE entitySpeed(kind, aggr, d.speed)
    IN  [id |-> s.nextEntityId,
         kind |-> kind,
         sizeClass |-> IF kind = "apex" THEN 5 ELSE npcSize,
         pos |-> pos,
         vel |-> normalizeScale(mix, speed),
         radius |-> radius,
         combat |-> IF kind = "apex"
                    THEN <<[maxHealth |-> dif.apexMaxHealth,
                            health |-> dif.apexMaxHealth,
                            tailWindowBias |-> rnd(52, 68, d.tail),
                            flashUntil |-> -1000,
                            lastHitAt |-> -999000]>>
                    ELSE <<>>]

\* spawnKind without state.nextEntityId += 1
spawnKindSameId(s, kind, dt, d) ==
    IF ~isKindUnlocked(s, kind) THEN s
    ELSE LET s1 == [s EXCEPT !.spawnTimers[kind] = @ + dt]
             rate == spawnRateForKind(s1, kind)
         IN  IF rate <= 0 THEN s1
             ELSE IF /\ s1.spawnTimers[kind] * rate >= 100000
                     /\ countByKind(s1, kind) < spawnCapForKind(s1, kind)
             THEN LET s2 == [s1 EXCEPT !.spawnTimers[kind] = 0]
                  IN  [s2 EXCEPT !.entities = Append(@, spawnAtEdge(s2, kind, d))]
             ELSE s1

\* spawnKind that does not look at the population cap
spawnKindUncapped(s, kind, dt, d) ==
    IF ~isKindUnlocked(s, kind) THEN s
    ELSE IF spawnRateForKind(s, kind) <= 0 THEN [s EXCEPT !.spawnTimers[kind] = @ + dt]
    ELSE IF (s.spawnTimers[kind] + dt) * spawnRateForKind(s, kind) >= 100000
    THEN [s EXCEPT !.spawnTimers[kind] = 0,
                   !.entities = Append(@, spawnAtEdge([s EXCEPT !.spawnTimers[kind] = 0], kind, d)),
                   !.nextEntityId = @ + 1]
    ELSE [s EXCEPT !.spawnTimers[kind] = @ + dt]

\* the body of maybeSpawn's forEach for one kind
spawnKind(s, kind, dt, d) ==
    IF ~isKindUnlocked(s, kind) THEN s
    ELSE LET s1 == [s EXCEPT !.spawnTimers[kind] = @ + dt]
             rate == spawnRateForKind(s1, kind)
         IN  IF rate <= 0 THEN s1
             ELSE IF /\ s1.spawnTimers[kind] * rate >= 100000
                     /\ countByKind(s1, kind) < spawnCapForKind(s1, kind)
             THEN LET s2 == [s1 EXCEPT !.spawnTimers[kind] = 0]
                  IN  [s2 EXCEPT !.entities = Append(@, spawnAtEdge(s2, kind, d)),
                                 !.nextEntityId = @ + 1]
             ELSE s1

maybeSpawn(s, dt, d) ==
    spawnKind(spawnKind(spawnKind(spawnKind(s, "prey", dt, d), "predator", dt, d), "apex", dt, d),
              "hazard", dt, d)

---------------------------------------------------------------------------
(* engine.ts: steering *)

\* Math.sin(x / 400) * 0.4 in tenths, by eighths of the period (2513 ms)
hazardDrift(x) ==
    LET k == ((x % 2513) * 8) \div 2513
    IN  CASE k = 0 -> 2 [] k = 1 -> 4 [] k = 2 -> 4 [] k = 3 -> 2
          [] k = 4 -> -2 [] k = 5 -> -4 [] k = 6 -> -4 [] OTHER -> -2

\* updateEntityAI(state, entity, dt); u is the draw of npcCruiseSpeed in the flee branch
updateEntityAI(s, entity, dt, u) ==
    LET tier == s.player.sizeTier
        npcSize == IF entity.sizeClass # 0 THEN entity.sizeClass
                   ELSE IF entity.kind = "prey" THEN 1 ELSE 3
        sizeDelta == npcSize - tier
        near == distLess(entity.pos, s.player.pos, 68 + npcSize * 10)
        v1 == IF entity.kind \in {"prey", "predator"} THEN
                  IF ~doesNpcAttackPlayer(tier, npcSize) /\ near THEN
                      LET target == normalizeScale(sub(entity.pos, s.player.pos),
                                                   npcCruiseSpeed(npcSize, u) + 100)
                          fleeTurn == 250 + Max(0, tier - npcSize) * 60
                      IN  [x |-> lerp(entity.vel.x, target.x, fleeTurn, 10000),
                           y |-> lerp(entity.vel.y, target.y, fleeTurn, 10000)]
                  ELSE IF doesNpcAttackPlayer(tier, npcSize) THEN
                      LET aggression == clamp(s.difficulty.predatorAggression + Max(0, sizeDelta - 1) * 8, 20, 100)
                          targetSpeed == 880 + npcSize * 100 + Quot(aggression * 360, 100)
                          target == normalizeScale(sub(s.player.pos, entity.pos), targetSpeed)
                          turn == Quot((2200 + aggression * 45) * dt * 60, 10000)
                      IN  [x |-> lerp(entity.vel.x, target.x, turn, 10000),
                           y |-> lerp(entity.vel.y, target.y, turn, 10000)]
                  ELSE entity.vel
              ELSE IF entity.kind = "apex" THEN
                  LET aggression == s.difficulty.apexAggression
                      target == normalizeScale(sub(s.player.pos, entity.pos), chaseSpeed(entity.kind, aggression))
                      turn == Quot((1800 + aggression * 30) * dt * 60, 10000)
                  IN  [x |-> lerp(entity.vel.x, target.x, turn, 10000),
                       y |-> lerp(entity.vel.y, target.y, turn, 10000)]
              ELSE IF entity.kind = "hazard" THEN
                  [x |-> entity.vel.x, y |-> entity.vel.y + hazardDrift(s.elapsedMs + entity.id * 47)]
              ELSE entity.vel
    IN  wrap([entity EXCEPT !.vel = v1, !.pos = add(entity.pos, displacement(v1, dt))])

---------------------------------------------------------------------------
(* engine.ts: collision and combat *)

\* resetPlayerAfterHit granting no grace period
resetPlayerAfterHitNoGrace(s, u) ==
    [s EXCEPT !.player.pos = [x |-> Quot(ARENA.width * 18, 100), y |-> rnd(100, ARENA.height - 100, u)],
              !.player.vel = [x |-> 0, y |-> 0]]

\* resetPlayerAfterHit(state); u is the draw of the respawn height
resetPlayerAfterHit(s, u) ==
    LET pos == [x |-> Quot(ARENA.width * 18, 100), y |-> rnd(100, ARENA.height - 100, u)]
    IN  [s EXCEPT !.player.pos = pos,
                  !.player.vel = [x |-> 0, y |-> 0],
                  !.player.invulnerableUntil = s.run.timeSeconds + s.difficulty.graceSecondsAfterRespawn,
                  !.entities = SelectSeq(s.entities, LAMBDA e : distGreater(e.pos, pos, RESPAWN_CULL_RADIUS))]

\* the apex branch's tailHitOpen: behind the apex and beyond the tail band
tailHitOpen(s, entity) ==
    LET dx == s.player.pos.x - entity.pos.x
        apexFacingX == IF entity.vel.x = 0 THEN 1 ELSE Sign(entity.vel.x)
        \* tailBandWidth * 0.24 in millionths
        tailBand == entity.radius * (80 + entity.combat[1].tailWindowBias)
                    * s.difficulty.apexTailHitLeniency * 24
    IN  dx * apexFacingX < 0 /\ Abs(dx) * 1000000 >= tailBand

\* hitCooldownReady with no cooldown
hitCooldownAlways(s, entity) == TRUE

hitCooldownReady(s, entity) ==
    s.run.timeSeconds - entity.combat[1].lastHitAt >= APEX_HIT_COOLDOWN_SECONDS

\* an entity of state.entities is the object the loop holds: a change to it shows in both
replaceEntity(ents, e) == [i \in DOMAIN ents |-> IF ents[i].id = e.id THEN e ELSE ents[i]]

noContact(s, entity) == [state |-> s, entity |-> entity, consumed |-> FALSE, events |-> <<>>]

\* apexKilled with the kill bonus assigned to the score where the code adds it
apexKilledBonusOnly(s, e, points, events) ==
    [state |-> [s EXCEPT !.apexThreat.lastKillAt = s.run.timeSeconds,
                         !.apexThreat.intensity = 0,
                         !.run.score = points * 2],
     entity |-> e, consumed |-> TRUE,
     events |-> events \o << [type |-> "score", amount |-> points * 2],
                             [type |-> "apex-killed", entityId |-> e.id,
                              points |-> points * 2, pos |-> e.pos] >>]

\* apexKilled that leaves the dead apex among the survivors
apexKilledKept(s, e, points, events) ==
    [state |-> [s EXCEPT !.apexThreat.lastKillAt = s.run.timeSeconds,
                         !.apexThreat.intensity = 0,
                         !.run.score = @ + points * 2],
     entity |-> e, consumed |-> FALSE,
     events |-> events \o << [type |-> "score", amount |-> points * 2],
                             [type |-> "apex-killed", entityId |-> e.id,
                              points |-> points * 2, pos |-> e.pos] >>]

\* the kill: health <= 0 after the hit
apexKilled(s, e, points, events) ==
    [state |-> [s EXCEPT !.apexThreat.lastKillAt = s.run.timeSeconds,
                         !.apexThreat.intensity = 0,
                         !.run.score = @ + points * 2],
     entity |-> e, consumed |-> TRUE,
     events |-> events \o << [type |-> "score", amount |-> points * 2],
                             [type |-> "apex-killed", entityId |-> e.id,
                              points |-> points * 2, pos |-> e.pos] >>]

\* apexHitBooked reporting the health as it stands, below zero included
apexHitBookedRaw(s, e, damage, points) ==
    LET c == e.combat[1]
        events == << [type |-> "apex-hit", entityId |-> e.id, damage |-> damage,
                      health |-> c.health, maxHealth |-> c.maxHealth,
                      points |-> points, pos |-> e.pos],
                     [type |-> "score", amount |-> points],
                     [type |-> "apex-intensity", value |-> s.apexThreat.intensity] >>
    IN  IF c.health <= 0 THEN apexKilled(s, e, points, events)
        ELSE [state |-> s, entity |-> e, consumed |-> FALSE, events |-> events]

\* apexHitBooked without the kill: the apex stays whatever its health
apexHitBookedNoKill(s, e, damage, points) ==
    [state |-> s, entity |-> e, consumed |-> FALSE,
     events |-> << [type |-> "apex-hit", entityId |-> e.id, damage |-> damage,
                    health |-> Max(e.combat[1].health, 0), maxHealth |-> e.combat[1].maxHealth,
                    points |-> points, pos |-> e.pos],
                   [type |-> "score", amount |-> points],
                   [type |-> "apex-intensity", value |-> s.apexThreat.intensity] >>]

\* the hit is booked: s and e are the state and the apex after it
apexHitBooked(s, e, damage, points) ==
    LET c == e.combat[1]
        events == << [type |-> "apex-hit", entityId |-> e.id, damage |-> damage,
                      health |-> Max(c.health, 0), maxHealth |-> c.maxHealth,
                      points |-> points, pos |-> e.pos],
                     [type |-> "score", amount |-> points],
                     [type |-> "apex-intensity", value |-> s.apexThreat.intensity] >>
    IN  IF c.health <= 0 THEN apexKilled(s, e, points, events)
        ELSE [state |-> s, entity |-> e, consumed |-> FALSE, events |-> events]

\* threat intensity of an apex hit: clamp(1 - health / maxHealth, 0, 1)
hitIntensity(c) == clamp(1000 - Quot(c.health * 1000, c.maxHealth), 0, 1000)

\* the tail hit on the apex e, which becomes e1
apexHitApplied(s, e1, damage, points) ==
    apexHitBooked([s EXCEPT !.run.score = @ + points,
                            !.apexThreat.lastHitAt = s.run.timeSeconds,
                            !.apexThreat.intensity = Max(@, hitIntensity(e1.combat[1])),
                            !.entities = replaceEntity(@, e1)],
                  e1, damage, points)

apexTailHit(s, entity, damage) ==
    apexHitApplied(s,
                   [entity EXCEPT !.combat[1].lastHitAt = s.run.timeSeconds,
                                  !.combat[1].flashUntil = s.run.timeSeconds + APEX_FLASH_SECONDS,
                                  !.combat[1].health = @ - damage],
                   damage, pointsForApexTailHit(s.difficulty.scoreMultiplier))

\* eatEntity that adds the points without a score event
eatEntityUnbooked(s, entity, points) ==
    [state |-> [s EXCEPT !.run.score = @ + points,
                         !.run.preyEaten = IF entity.kind \in {"prey", "predator"} THEN @ + 1 ELSE @],
     entity |-> entity, consumed |-> TRUE,
     events |-> << [type |-> "eat", kind |-> entity.kind, sizeClass |-> entity.sizeClass] >>]

eatEntity(s, entity, points) ==
    [state |-> [s EXCEPT !.run.score = @ + points,
                         !.run.preyEaten = IF entity.kind \in {"prey", "predator"} THEN @ + 1 ELSE @],
     entity |-> entity, consumed |-> TRUE,
     events |-> << [type |-> "eat", kind |-> entity.kind, sizeClass |-> entity.sizeClass],
                   [type |-> "score", amount |-> points] >>]

\* lifeTaken with the run ending only below zero lives
lifeTakenBelowZero(s, entity, u) ==
    IF s.player.lives < 0
    THEN [state |-> [s EXCEPT !.mode = "gameOver"], entity |-> entity, consumed |-> FALSE,
          events |-> << [type |-> "player-hit", livesRemaining |-> s.player.lives],
                        [type |-> "game-over", finalScore |-> s.run.score] >>]
    ELSE [state |-> resetPlayerAfterHit(s, u), entity |-> entity, consumed |-> FALSE,
          events |-> << [type |-> "player-hit", livesRemaining |-> s.player.lives] >>]

\* the life is taken: s is the state after state.player.lives -= 1
lifeTaken(s, entity, u) ==
    IF s.player.lives <= 0
    THEN [state |-> [s EXCEPT !.mode = "gameOver"], entity |-> entity, consumed |-> FALSE,
          events |-> << [type |-> "player-hit", livesRemaining |-> s.player.lives],
                        [type |-> "game-over", finalScore |-> s.run.score] >>]
    ELSE [state |-> resetPlayerAfterHit(s, u), entity |-> entity, consumed |-> FALSE,
          events |-> << [type |-> "player-hit", livesRemaining |-> s.player.lives] >>]

hostileContact(s, entity, u) == lifeTaken([s EXCEPT !.player.lives = @ - 1], entity, u)

\* handlePlayerCollision with an apex that never hurts the player
handlePlayerCollisionApexHarmless(s, entity, u) ==
    IF ~overlapsFishFootprint(s.player, entity, s.difficulty.playerHitboxScale,
                              s.difficulty.enemyHitboxScale)
    THEN noContact(s, entity)
    ELSE IF /\ entity.kind = "apex" /\ entity.combat # <<>>
            /\ tailHitOpen(s, entity) /\ hitCooldownReady(s, entity)
    THEN apexTailHit(s, entity, apexTailDamageForPlayer(s.player.sizeTier))
    ELSE IF canEat(s.player.sizeTier, entity)
    THEN eatEntity(s, entity, pointsForEat(entity, s.difficulty.scoreMultiplier))
    ELSE IF entity.kind # "apex" /\ ~(s.run.timeSeconds < s.player.invulnerableUntil)
    THEN hostileContact(s, entity, u)
    ELSE noContact(s, entity)

\* handlePlayerCollision(state, entity): the state and the entity after it,
\* the consumed flag and the events; u is the draw of the respawn height
handlePlayerCollision(s, entity, u) ==
    IF ~overlapsFishFootprint(s.player, entity, s.difficulty.playerHitboxScale,
                              s.difficulty.enemyHitboxScale)
    THEN noContact(s, entity)
    ELSE IF /\ entity.kind = "apex" /\ entity.combat # <<>>
            /\ tailHitOpen(s, entity) /\ hitCooldownReady(s, entity)
    THEN apexTailHit(s, entity, apexTailDamageForPlayer(s.player.sizeTier))
    ELSE IF canEat(s.player.sizeTier, entity)
    THEN eatEntity(s, entity, pointsForEat(entity, s.difficulty.scoreMultiplier))
    ELSE IF ~(s.run.timeSeconds < s.player.invulnerableUntil)
    THEN hostileContact(s, entity, u)
    ELSE noContact(s, entity)

---------------------------------------------------------------------------
(* engine.ts: progression *)

\* the growth loop without the test against MAX_SIZE_TIER
RECURSIVE updateGrowthLoopUncapped(_)
updateGrowthLoopUncapped(s) ==
    IF s.run.score >= s.run.nextGrowthScore THEN
        LET tier == s.player.sizeTier + 1
            growth == s.run.nextGrowthScore + GROWTH_STEP
        IN  updateGrowthLoopUncapped(
                [s EXCEPT !.player.sizeTier = tier,
                          !.player.radius = playerRadiusForSizeTier(tier),
                          !.pendingEvents = Append(@, [type |-> "growth", sizeTier |-> tier]),
                          !.run.nextGrowthScore = growth])
    ELSE s

\* the growth loop as a single step: at most one threshold per tick
updateGrowthOnce(s) ==
    IF s.run.score >= s.run.nextGrowthScore THEN
        IF s.player.sizeTier < MAX_SIZE_TIER THEN
            [s EXCEPT !.player.sizeTier = @ + 1,
                      !.player.radius = playerRadiusForSizeTier(s.player.sizeTier + 1),
                      !.pendingEvents = Append(@, [type |-> "growth", sizeTier |-> s.player.sizeTier + 1]),
                      !.run.nextGrowthScore = @ + GROWTH_STEP]
        ELSE IF s.run.score >= s.run.nextExtraLifeScore THEN
            [s EXCEPT !.player.lives = @ + 1,
                      !.pendingEvents = Append(@, [type |-> "extra-life", lives |-> s.player.lives + 1]),
                      !.run.nextExtraLifeScore = @ + s.difficulty.extraLifeScoreStep]
        ELSE s
    ELSE s

\* the growth loop moving the extra-life threshold by 1000 instead of the profile's step
RECURSIVE updateGrowthLoopShortStep(_)
updateGrowthLoopShortStep(s) ==
    IF s.run.score >= s.run.nextGrowthScore THEN
        IF s.player.sizeTier < MAX_SIZE_TIER THEN
            updateGrowthLoopShortStep(
                [s EXCEPT !.player.sizeTier = @ + 1,
                          !.player.radius = playerRadiusForSizeTier(s.player.sizeTier + 1),
                          !.pendingEvents = Append(@, [type |-> "growth", sizeTier |-> s.player.sizeTier + 1]),
                          !.run.nextGrowthScore = @ + GROWTH_STEP,
                          !.run.nextExtraLifeScore =
                              IF s.player.sizeTier + 1 = MAX_SIZE_TIER /\ @ < s.run.nextGrowthScore + GROWTH_STEP
                              THEN s.run.nextGrowthScore + GROWTH_STEP ELSE @])
        ELSE IF s.run.score >= s.run.nextExtraLifeScore THEN
            updateGrowthLoopShortStep(
                [s EXCEPT !.player.lives = @ + 1,
                          !.pendingEvents = Append(@, [type |-> "extra-life", lives |-> s.player.lives + 1]),
                          !.run.nextExtraLifeScore = @ + GROWTH_STEP])
        ELSE s
    ELSE s

RECURSIVE updateGrowthLoop(_)
updateGrowthLoop(s) ==
    IF s.run.score >= s.run.nextGrowthScore THEN
        IF s.player.sizeTier < MAX_SIZE_TIER THEN
            LET tier == s.player.sizeTier + 1
                growth == s.run.nextGrowthScore + GROWTH_STEP
            IN  updateGrowthLoop(
                    [s EXCEPT !.player.sizeTier = tier,
                              !.player.radius = playerRadiusForSizeTier(tier),
                              !.pendingEvents = Append(@, [type |-> "growth", sizeTier |-> tier]),
                              !.run.nextGrowthScore = growth,
                              !.run.nextExtraLifeScore =
                                  IF tier = MAX_SIZE_TIER /\ @ < growth THEN growth ELSE @])
        ELSE IF s.run.score >= s.run.nextExtraLifeScore THEN
            updateGrowthLoop(
                [s EXCEPT !.player.lives = @ + 1,
                          !.pendingEvents = Append(@, [type |-> "extra-life", lives |-> s.player.lives + 1]),
                          !.run.nextExtraLifeScore = @ + s.difficulty.extraLifeScoreStep])
        ELSE s
    ELSE s

\* updateGrowthAndLives putting the milestone event at the head of the list
updateGrowthAndLivesMilestoneFirst(s) ==
    IF milestoneForScore(updateGrowthLoop(s).run.score) > s.run.milestone
    THEN [updateGrowthLoop(s) EXCEPT
              !.run.milestone = milestoneForScore(updateGrowthLoop(s).run.score),
              !.pendingEvents = <<[type |-> "milestone",
                                   value |-> milestoneForScore(updateGrowthLoop(s).run.score)]>> \o @]
    ELSE updateGrowthLoop(s)

updateGrowthAndLives(s) ==
    LET s1 == updateGrowthLoop(s)
        milestone == milestoneForScore(s1.run.score)
    IN  IF milestone > s1.run.milestone
        THEN [s1 EXCEPT !.run.milestone = milestone,
                        !.pendingEvents = Append(@, [type |-> "milestone", value |-> milestone])]
        ELSE s1

RECURSIVE sumDamage(_, _)
sumDamage(ents, i) ==
    IF i > Len(ents) THEN 0
    ELSE (IF ents[i].combat = <<>> THEN 0
          ELSE 1000 - Quot(ents[i].combat[1].health * 1000, ents[i].combat[1].maxHealth))
         + sumDamage(ents, i + 1)

\* updateApexThreatState with the damage of the apexes summed, not averaged
updateApexThreatStateSummed(s) ==
    LET apexEntities == SelectSeq(s.entities, LAMBDA e : e.kind = "apex")
        n == Len(apexEntities)
    IN  IF n = 0
        THEN [s EXCEPT !.apexThreat.activeCount = 0,
                       !.apexThreat.intensity = Max(0, @ - 20)]
        ELSE [s EXCEPT !.apexThreat.activeCount = n,
                       !.apexThreat.intensity = Max(Quot(@ * 985, 1000),
                                                    sumDamage(apexEntities, 1))]

updateApexThreatState(s) ==
    LET apexEntities == SelectSeq(s.entities, LAMBDA e : e.kind = "apex")
        n == Len(apexEntities)
    IN  IF n = 0
        THEN [s EXCEPT !.apexThreat.activeCount = 0,
                       !.apexThreat.intensity = Max(0, @ - 20)]
        ELSE LET avgDamage == Quot(sumDamage(apexEntities, 1), n)
             IN  [s EXCEPT !.apexThreat.activeCount = n,
                           !.apexThreat.intensity = Max(Quot(@ * 985, 1000), avgDamage)]

---------------------------------------------------------------------------
(* engine.ts: the step *)

\* what the collision loop's call for one entity saw (before) and left (after)
collisionRecord(s, entity, r) ==
    [id |-> entity.id, kind |-> entity.kind, sizeClass |-> entity.sizeClass,
     overlap |-> overlapsFishFootprint(s.player, entity, s.difficulty.playerHitboxScale,
                                       s.difficulty.enemyHitboxScale),
     tier |-> s.player.sizeTier,
     invulnerable |-> s.run.timeSeconds < s.player.invulnerableUntil,
     tailOpen |-> entity.combat # <<>> /\ tailHitOpen(s, entity),
     cooldownReady |-> entity.combat # <<>> /\ hitCooldownReady(s, entity),
     livesBefore |-> s.player.lives, livesAfter |-> r.state.player.lives,
     scoreBefore |-> s.run.score, scoreAfter |-> r.state.run.score,
     eatenBefore |-> s.run.preyEaten, eatenAfter |-> r.state.run.preyEaten,
     posAfter |-> r.state.player.pos,
     consumed |-> r.consumed, events |-> r.events]

\* the loop's body once handlePlayerCollision has returned r
RECURSIVE collisionLoop(_, _, _, _, _, _)
collisionNext(s, ents, i, survivors, log, u, r) ==
    collisionLoop([r.state EXCEPT !.pendingEvents = @ \o r.events], ents, i + 1,
                  IF r.consumed THEN survivors ELSE Append(survivors, r.entity),
                  Append(log, collisionRecord(s, ents[i], r)), u)

\* the loop over state.entities as they were when the loop began
collisionLoop(s, ents, i, survivors, log, u) ==
    IF i > Len(ents) THEN [state |-> s, survivors |-> survivors, log |-> log]
    ELSE collisionNext(s, ents, i, survivors, log, u, handlePlayerCollision(s, ents[i], u))

movePlayer(s, movement, dt) ==
    LET d == s.difficulty
        desiredVel == normalizeScale(movement, d.playerSpeed)
        vel == [x |-> lerp(s.player.vel.x, desiredVel.x, d.playerTurnLerp, 100),
                y |-> lerp(s.player.vel.y, desiredVel.y, d.playerTurnLerp, 100)]
        pos == add(s.player.pos, displacement(vel, dt))
    IN  [s EXCEPT !.player.vel = vel,
                  !.player.pos = [x |-> clamp(pos.x, 0, ARENA.width),
                                  y |-> clamp(pos.y, 0, ARENA.height)]]

\* state.entities.forEach((e) => updateEntityAI(state, e, dt))
steerEntities(s, dt, u) ==
    [s EXCEPT !.entities = [i \in DOMAIN s.entities |-> updateEntityAI(s, s.entities[i], dt, u)]]

\* the collision loop and state.entities = survivors
resolveCollisions(s, u) == collisionLoop(s, s.entities, 1, <<>>, <<>>, u)

keepSurvivors(c) == [state |-> [c.state EXCEPT !.entities = c.survivors], collisions |-> c.log]

finishTick(t) ==
    [state |-> updateApexThreatState(updateGrowthAndLives(t.state)), collisions |-> t.collisions]

\* tickGame from state.run.timeSeconds += dt on, dt clamped
simulate(s, movement, dt, d) ==
    finishTick(keepSurvivors(resolveCollisions(
        steerEntities(movePlayer(maybeSpawn([s EXCEPT !.run.timeSeconds = @ + dt], dt, d), movement, dt),
                      dt, d.cruise),
        d.respawnY)))

\* applyPause with a toggle that resumes from any mode but playing
applyPauseAnyMode(s, pausePressed) ==
    IF pausePressed /\ s.mode = "playing" THEN [s EXCEPT !.mode = "paused"]
    ELSE IF pausePressed THEN [s EXCEPT !.mode = "playing"]
    ELSE s

applyPause(s, pausePressed) ==
    IF pausePressed /\ s.mode = "playing" THEN [s EXCEPT !.mode = "paused"]
    ELSE IF pausePressed /\ s.mode = "paused" THEN [s EXCEPT !.mode = "playing"]
    ELSE s

\* tickIfPlaying that keeps simulating a run that is over
tickIfNotHalted(s, movement, dtMs, d) ==
    IF s.mode \notin {"playing", "gameOver"} THEN [state |-> s, collisions |-> <<>>]
    ELSE simulate(s, movement, clamp(dtMs, 0, MAX_DT), d)

\* tickIfPlaying handing dtMs to the simulation as it comes
tickIfPlayingRawDt(s, movement, dtMs, d) ==
    IF s.mode # "playing" THEN [state |-> s, collisions |-> <<>>]
    ELSE simulate(s, movement, dtMs, d)

\* tickGame after the pause toggle
tickIfPlaying(s, movement, dtMs, d) ==
    IF s.mode # "playing" THEN [state |-> s, collisions |-> <<>>]
    ELSE simulate(s, movement, clamp(dtMs, 0, MAX_DT), d)

\* tickGame that starts from the events of the previous state
tickGameKeepingEvents(prev, input, dtMs, d) ==
    tickIfPlaying(applyPause([prev EXCEPT !.elapsedMs = @ + dtMs], input.pausePressed),
                  input.movement, dtMs, d)

\* tickGame(prev, input, dtMs) at the draws d: the returned state, and the record of
\* its collision loop
tickGame(prev, input, dtMs, d) ==
    tickIfPlaying(applyPause([prev EXCEPT !.elapsedMs = @ + dtMs, !.pendingEvents = <<>>],
                             input.pausePressed),
                  input.movement, dtMs, d)

---------------------------------------------------------------------------
(* Inputs of a tick: the host's input, its frame delta, the tick's random draws *)

Movements == { [x |-> 0, y |-> 0], [x |-> -1, y |-> 1] }

DtChoices == { -20, 20, 1000 }

RandomDraws ==
    { [r |-> 10, edge |-> 0, radius |-> 0, along |-> 50, hx |-> 100, hy |-> 0,
       speed |-> 0, tail |-> 0, cruise |-> 0, respawnY |-> 50],
      [r |-> 60, edge |-> 1, radius |-> 100, along |-> 20, hx |-> -50, hy |-> 100,
       speed |-> 100, tail |-> 100, cruise |-> 100, respawnY |-> 0],
      [r |-> 95, edge |-> 2, radius |-> 50, along |-> 80, hx |-> 0, hy |-> -100,
       speed |-> 50, tail |-> 50, cruise |-> 50, respawnY |-> 100] }

---------------------------------------------------------------------------
(* Runs in progress: states that a run reaches after many ticks (a tick     *)
(* advances the run by at most 50 ms; an apex unlocks after 16 s or more),  *)
(* written down directly. Each is a state between two ticks: scores are     *)
(* sums of awarded points, tiers and thresholds follow the score, wounds of *)
(* an apex are booked in the threat record, and no entity touches a player  *)
(* who can be hurt. The fish are one step away from the player.             *)

fish(id, kind, sizeClass, radius, x, y, vx, vy) ==
    [id |-> id, kind |-> kind, sizeClass |-> sizeClass, pos |-> [x |-> x, y |-> y],
     vel |-> [x |-> vx, y |-> vy], radius |-> radius, combat |-> <<>>]

hazard(id, radius, x, y, vx, vy) == fish(id, "hazard", 0, radius, x, y, vx, vy)

apex(id, radius, x, y, vx, vy, health, maxHealth, lastHitAt) ==
    [id |-> id, kind |-> "apex", sizeClass |-> 5, pos |-> [x |-> x, y |-> y],
     vel |-> [x |-> vx, y |-> vy], radius |-> radius,
     combat |-> <<[maxHealth |-> maxHealth, health |-> health, tailWindowBias |-> 60,
                   flashUntil |-> IF lastHitAt < 0 THEN -1000 ELSE lastHitAt + APEX_FLASH_SECONDS,
                   lastHitAt |-> lastHitAt]>>]

playerAt(x, y, vx, vy, lives, invulnerableUntil) ==
    [pos |-> [x |-> x, y |-> y], vel |-> [x |-> vx, y |-> vy], lives |-> lives,
     invulnerableUntil |-> invulnerableUntil]

timersAt(a, b, c, d) == [prey |-> a, predator |-> b, apex |-> c, hazard |-> d]

threatAt(intensity, lastHitAt, lastKillAt) ==
    [intensity |-> intensity, lastHitAt |-> lastHitAt, lastKillAt |-> lastKillAt]

calm == threatAt(0, -999000, -999000)

\* a run of difficulty key at run time t
running(key, t, pl, score, preyEaten, extraLifeAt, ents, nextId, timers, threat) ==
    LET s == createInitialGameState(key)
        tier == Min(MAX_SIZE_TIER, 2 + score \div GROWTH_STEP)
    IN  [s EXCEPT !.mode = "playing",
                  !.elapsedMs = t,
                  !.player = [pos |-> pl.pos, vel |-> pl.vel,
                              radius |-> playerRadiusForSizeTier(tier), sizeTier |-> tier,
                              lives |-> pl.lives, invulnerableUntil |-> pl.invulnerableUntil],
                  !.entities = ents,
                  !.run = [score |-> score, timeSeconds |-> t, preyEaten |-> preyEaten,
                           predatorsAvoided |-> 0,
                           nextGrowthScore |-> GROWTH_STEP * (tier - 1),
                           nextExtraLifeScore |-> extraLifeAt,
                           milestone |-> milestoneForScore(score)],
                  !.nextEntityId = nextId,
                  !.spawnTimers = timers,
                  !.apexThreat = [activeCount |-> countByKind([entities |-> ents], "apex"),
                                  intensity |-> threat.intensity,
                                  lastHitAt |-> threat.lastHitAt,
                                  lastKillAt |-> threat.lastKillAt]]

RunsInProgress ==
    { \* one life left; two larger fish and a smaller one close in on the player
      running("normal", 30000, playerAt(211, 270, 0, 0, 1, 24000), 270, 3, 6000,
              << fish(5, "predator", 3, 16, 249, 270, -900, 0),
                 fish(6, "predator", 4, 22, 165, 270, 800, 0),
                 fish(7, "prey", 1, 8, 211, 254, 0, 800) >>, 9, timersAt(100, 9000, 10000, 0), calm),
      \* three lives; a larger fish closes in, another waits near the respawn place
      running("normal", 30000, playerAt(211, 270, 0, 0, 3, 0), 405, 3, 6000,
              << fish(3, "predator", 3, 16, 249, 270, -900, 0),
                 fish(4, "predator", 3, 15, 150, 330, 500, -500),
                 fish(8, "prey", 2, 11, 700, 400, -800, 0) >>, 11, timersAt(100, 9000, 10000, 0), calm),
      \* easy: a smaller and a larger fish close in
      running("easy", 30000, playerAt(211, 270, 0, 0, 4, 0), 380, 5, 6000,
              << fish(8, "prey", 2, 11, 239, 270, -900, 0),
                 fish(9, "predator", 3, 16, 177, 270, 800, 0) >>, 12, timersAt(100, 300, 6000, 0), calm),
      \* hard, within the grace period of a hit 700 ms ago
      running("hard", 25000, playerAt(172, 270, 0, 0, 1, 25800), 336, 2, 6000,
              << fish(3, "predator", 3, 16, 212, 270, -900, 0),
                 fish(4, "prey", 2, 11, 139, 270, 800, 0) >>, 7, timersAt(100, 300, 9000, 0), calm),
      \* an apex head-on, the player in front of it
      running("normal", 40000, playerAt(211, 270, 0, 0, 3, 0), 1080, 8, 6000,
              << apex(7, 30, 282, 270, -1500, 0, 3, 3, -999000) >>, 9,
              timersAt(100, 300, 5714, 0), calm),
      \* the player catches up with the tail of an apex: fresh, hit 200 ms ago, nearly dead
      running("normal", 40000, playerAt(283, 270, -2400, 0, 3, 0), 1080, 8, 6000,
              << apex(7, 30, 211, 270, -1500, 0, 3, 3, -999000) >>, 9,
              timersAt(100, 300, 5714, 0), calm),
      running("normal", 40000, playerAt(283, 270, -2400, 0, 3, 0), 1400, 10, 6000,
              << apex(7, 30, 211, 270, -1500, 0, 2, 3, 39800) >>, 9,
              timersAt(100, 300, 5714, 0), threatAt(334, 39800, -999000)),
      running("normal", 40000, playerAt(283, 270, -2400, 0, 2, 31000), 1900, 8, 6000,
              << apex(7, 30, 211, 270, -1500, 0, 1, 3, 38000) >>, 9,
              timersAt(100, 300, 5714, 0), threatAt(667, 38000, -999000)),
      \* a full-grown player on the tail of a nearly dead apex, a second apex far away
      running("hard", 50000, playerAt(310, 270, -2300, 0, 2, 0), 4610, 20, 6000,
              << apex(5, 33, 211, 270, -1600, 0, 1, 4, 45000),
                 apex(9, 28, 800, 100, -1000, 500, 2, 4, 30000),
                 hazard(11, 16, 700, 450, 0, 700),
                 hazard(12, 18, 500, 60, 0, -700) >>, 14,
              timersAt(100, 300, 14000, 7000), threatAt(625, 45000, -999000)),
      \* two wounded apexes away from the player
      running("hard", 50000, playerAt(211, 270, 0, 0, 2, 0), 4610, 20, 6000,
              << apex(5, 33, 600, 400, -1600, 0, 1, 4, 45000),
                 apex(9, 28, 800, 100, -1000, 500, 2, 4, 30000),
                 hazard(11, 16, 700, 450, 0, 700),
                 hazard(12, 18, 500, 60, 0, -700) >>, 14,
              timersAt(100, 300, 14000, 7000), threatAt(625, 45000, -999000)),
      \* about to grow
      running("normal", 30000, playerAt(211, 270, 0, 0, 3, 0), 990, 11, 6000,
              << fish(9, "prey", 1, 8, 238, 270, -900, 0) >>, 12, timersAt(100, 300, 10000, 0), calm),
      running("normal", 60000, playerAt(211, 270, 0, 0, 3, 0), 2970, 22, 6000,
              << apex(12, 30, 800, 450, -1200, -600, 3, 3, -999000),
                 hazard(30, 16, 600, 300, 0, 700),
                 fish(31, "prey", 4, 20, 268, 270, -900, 0) >>, 34,
              timersAt(100, 300, 25714, 3000), calm),
      \* full-grown and about to earn a life, a hazard drifting in
      running("hard", 60000, playerAt(211, 270, 0, 0, 2, 0), 5992, 53, 6000,
              << apex(9, 33, 850, 100, -1200, 600, 4, 4, -999000),
                 apex(15, 28, 800, 480, -1300, -500, 4, 4, -999000),
                 fish(59, "prey", 2, 12, 271, 270, -900, 0),
                 hazard(60, 16, 211, 228, 0, 700) >>, 63,
              timersAt(100, 300, 24000, 300), calm),
      \* every kind due to spawn
      running("hard", 35990, playerAt(211, 270, 0, 0, 2, 0), 4032, 24, 6000,
              << apex(9, 30, 800, 450, -1200, -600, 4, 4, -999000),
                 fish(30, "prey", 3, 15, 275, 270, -900, 0) >>, 33,
              timersAt(990, 1420, 9990, 4990), calm),
      \* the first seconds of a run
      running("normal", 5000, playerAt(211, 270, 0, 0, 3, 0), 90, 1, 6000,
              << fish(1, "prey", 1, 8, 238, 270, -900, 0),
                 fish(2, "predator", 2, 12, 400, 300, -900, 0) >>, 4, timersAt(820, 1990, 0, 0), calm),
      \* eight class-2 fish eaten in the first eight seconds: tier 3 before 10 s
      running("normal", 7980, playerAt(480, 270, 0, 0, 3, 0), 1080, 8, 6000,
              << fish(8, "prey", 1, 8, 700, 100, -900, 0) >>, 9,
              timersAt(400, 1990, 0, 0), calm) }

---------------------------------------------------------------------------
(* The state machine *)

State ==
    [elapsedMs |-> elapsedMs, mode |-> mode, difficulty |-> difficulty, player |-> player,
     entities |-> entities, run |-> run, nextEntityId |-> nextEntityId,
     spawnTimers |-> spawnTimers, apexThreat |-> apexThreat, pendingEvents |-> pendingEvents]

IsState(s) ==
    /\ elapsedMs = s.elapsedMs
    /\ mode = s.mode
    /\ difficulty = s.difficulty
    /\ player = s.player
    /\ entities = s.entities
    /\ run = s.run
    /\ nextEntityId = s.nextEntityId
    /\ spawnTimers = s.spawnTimers
    /\ apexThreat = s.apexThreat
    /\ pendingEvents = s.pendingEvents

Becomes(s) ==
    /\ elapsedMs' = s.elapsedMs
    /\ mode' = s.mode
    /\ difficulty' = s.difficulty
    /\ player' = s.player
    /\ entities' = s.entities
    /\ run' = s.run
    /\ nextEntityId' = s.nextEntityId
    /\ spawnTimers' = s.spawnTimers
    /\ apexThreat' = s.apexThreat
    /\ pendingEvents' = s.pendingEvents

\* App: the refs start false, no key is down, the scene is built for the selected difficulty
mounted(key) ==
    [startRunRef |-> FALSE, restartRunRef |-> FALSE, togglePauseRef |-> FALSE,
     selectedDifficulty |-> key, startHeld |-> FALSE, pauseQueued |-> FALSE]

InitOf(states) ==
    /\ \E s \in states : IsState(s)
    /\ host = mounted(difficulty.key)
    /\ op = "createInitialGameState"
    /\ collisions = <<>>
    /\ ticks = 0
    /\ restartAsked = "none"

TitleScreens == { createInitialGameState(k) : k \in DifficultyKeys }

Init == InitOf(TitleScreens \cup RunsInProgress)

\* GameScene.update: the selected difficulty differs from the state's
SetDifficulty ==
    \E k \in DifficultyKeys :
        /\ k # difficulty.key
        /\ Becomes(setDifficulty(State, k))
        /\ host' = [host EXCEPT !.selectedDifficulty = k]
        /\ op' = "setDifficulty"
        /\ UNCHANGED <<collisions, ticks, restartAsked>>

\* GameScene.update: a start request in title, a restart request in gameOver
StartNewRun ==
    /\ mode \in {"title", "gameOver"}
    /\ Becomes(startNewRun(State))
    /\ op' = "startNewRun"
    /\ UNCHANGED <<host, collisions, ticks, restartAsked>>

\* GameScene.update: a pause request
TogglePause ==
    /\ Becomes(setMode(State, IF mode = "paused" THEN "playing"
                              ELSE IF mode = "playing" THEN "paused" ELSE mode))
    /\ op' = "setMode"
    /\ UNCHANGED <<host, collisions, ticks, restartAsked>>

TickTo(t) ==
    /\ Becomes(t.state)
    /\ collisions' = t.collisions

Tick ==
    /\ ticks < MaxTicks
    /\ \E movement \in Movements, pausePressed \in BOOLEAN, dtMs \in DtChoices, d \in RandomDraws :
          TickTo(tickGame(State, [movement |-> movement, pausePressed |-> pausePressed], dtMs, d))
    /\ op' = "tickGame"
    /\ ticks' = ticks + 1
    /\ UNCHANGED <<host, restartAsked>>

Next == SetDifficulty \/ StartNewRun \/ TogglePause \/ Tick

Spec == Init /\ [][Next]_vars

\* the engine driven through its exported functions alone: pauses come from
\* input.pausePressed, not from the host's setMode
EngineNext == SetDifficulty \/ StartNewRun \/ Tick

EngineSpec == Init /\ [][EngineNext]_vars

---------------------------------------------------------------------------
(* The host: App's requests and keys, and GameScene.update as one frame *)

\* inputs of a frame
FrameDts == {20}

engineVars == <<elapsedMs, mode, difficulty, player, entities, run, nextEntityId,
                spawnTimers, apexThreat, pendingEvents>>

\* App.requestStart
requestStart ==
    /\ host' = [host EXCEPT !.startRunRef = TRUE]
    /\ op' = "requestStart"
    /\ UNCHANGED <<engineVars, collisions, ticks, restartAsked>>

\* App.requestRestart
requestRestart ==
    /\ host' = [host EXCEPT !.restartRunRef = TRUE]
    /\ restartAsked' = mode
    /\ op' = "requestRestart"
    /\ UNCHANGED <<engineVars, collisions, ticks>>

\* App.requestPause
requestPause ==
    /\ host' = [host EXCEPT !.togglePauseRef = TRUE]
    /\ op' = "requestPause"
    /\ UNCHANGED <<engineVars, collisions, ticks, restartAsked>>

\* App: the difficulty select's onChange
chooseDifficulty ==
    \E k \in DifficultyKeys :
        /\ k # host.selectedDifficulty
        /\ host' = [host EXCEPT !.selectedDifficulty = k]
        /\ op' = "chooseDifficulty"
        /\ UNCHANGED <<engineVars, collisions, ticks, restartAsked>>

\* KeyboardInput.onKeyDown / onKeyUp for enter or space
startKey ==
    /\ host' = [host EXCEPT !.startHeld = ~@]
    /\ op' = "startKey"
    /\ UNCHANGED <<engineVars, collisions, ticks, restartAsked>>

\* KeyboardInput.onKeyDown for p or escape
pauseKey ==
    /\ host' = [host EXCEPT !.pauseQueued = TRUE]
    /\ op' = "pauseKey"
    /\ UNCHANGED <<engineVars, collisions, ticks, restartAsked>>

\* the steps of GameScene.update on f = [state, host, restarted]
syncDifficulty(f) ==
    IF f.state.difficulty.key # f.host.selectedDifficulty
    THEN [f EXCEPT !.state = setDifficulty(f.state, f.host.selectedDifficulty)]
    ELSE f

startIfAsked(f) ==
    IF (f.host.startRunRef \/ f.host.startHeld) /\ f.state.mode = "title"
    THEN [f EXCEPT !.host.startRunRef = FALSE, !.state = startNewRun(f.state)]
    ELSE f

restartIfAsked(f) ==
    IF (f.host.restartRunRef \/ f.host.startHeld) /\ f.state.mode = "gameOver"
    THEN [f EXCEPT !.host.restartRunRef = FALSE, !.state = startNewRun(f.state),
                   !.restarted = TRUE]
    ELSE f

togglePauseIfAsked(f) ==
    IF f.host.togglePauseRef
    THEN [f EXCEPT !.host.togglePauseRef = FALSE,
                   !.state = setMode(f.state, IF f.state.mode = "paused" THEN "playing"
                                              ELSE IF f.state.mode = "playing" THEN "paused"
                                              ELSE f.state.mode)]
    ELSE f

\* App.getInputState: a queued pause key becomes a pause request, pausePressed is false
getInputState(f, movement) ==
    [f EXCEPT !.host.togglePauseRef = @ \/ f.host.pauseQueued, !.host.pauseQueued = FALSE,
              !.input = [movement |-> movement, pausePressed |-> FALSE]]

beforeTick(s, h, movement) ==
    getInputState(togglePauseIfAsked(restartIfAsked(startIfAsked(syncDifficulty(
        [state |-> s, host |-> h, restarted |-> FALSE,
         input |-> [movement |-> movement, pausePressed |-> FALSE]])))), movement)

updateTo(f, dtMs, d) ==
    /\ TickTo(tickGame(f.state, f.input, dtMs, d))
    /\ host' = f.host
    /\ restartAsked' = IF f.restarted THEN "none" ELSE restartAsked

\* GameScene.update
update ==
    /\ ticks < MaxTicks
    /\ \E movement \in Movements, dtMs \in FrameDts, d \in RandomDraws :
          updateTo(beforeTick(State, host, movement), dtMs, d)
    /\ op' = "update"
    /\ ticks' = ticks + 1

\* runs on their last life
LastLifeRuns == { s \in RunsInProgress : s.player.lives = 1 }

HostInit == InitOf(TitleScreens \cup LastLifeRuns)

HostNext ==
    \/ requestStart \/ requestRestart \/ requestPause \/ chooseDifficulty
    \/ startKey \/ pauseKey \/ update

HostSpec == HostInit /\ [][HostNext]_vars

---------------------------------------------------------------------------
(* Properties *)

HasEvent(type) == \E i \in DOMAIN pendingEvents : pendingEvents[i].type = type

\* the contact took a life: lives fell by one and a player-hit event came first
LifeLost(c) ==
    /\ c.livesAfter = c.livesBefore - 1
    /\ c.events # <<>>
    /\ c.events[1].type = "player-hit"

\* the contact left the player alone
Unhurt(c) ==
    /\ c.livesAfter = c.livesBefore
    /\ \A k \in DOMAIN c.events : c.events[k].type # "player-hit"

(* C1: in every state returned by tickGame, player.lives <= 0 implies      *)
(* mode = gameOver; a hostile contact that takes the lives to 0 or below   *)
(* has switched the mode to gameOver in the state that tick returns.       *)
GameOverAtZeroLives ==
    op = "tickGame" =>
        /\ player.lives <= 0 => mode = "gameOver"
        /\ \A i \in DOMAIN collisions :
              (collisions[i].livesAfter < collisions[i].livesBefore /\ collisions[i].livesAfter <= 0)
                  => mode = "gameOver"

GameOverAtZeroLivesWitness ==
    /\ op = "tickGame"
    /\ player.lives <= 0
    /\ \E i \in DOMAIN collisions :
          collisions[i].livesBefore = 1 /\ collisions[i].livesAfter = 0

(* C2: once mode is gameOver, every tick (any movement, dtMs, pausePressed) *)
(* returns mode gameOver with player, entities, run, spawnTimers and        *)
(* apexThreat unchanged; only startNewRun or setDifficulty leaves the mode. *)
GameOverIsTerminal ==
    [][mode = "gameOver" =>
          /\ op' = "tickGame" =>
                /\ mode' = "gameOver"
                /\ UNCHANGED <<player, entities, run, spawnTimers, apexThreat>>
          /\ mode' # "gameOver" => op' \in {"startNewRun", "setDifficulty"}]_vars

\* a tick taken in gameOver: the run is over and the tick emitted nothing
GameOverIsTerminalWitness ==
    /\ op = "tickGame"
    /\ mode = "gameOver"
    /\ pendingEvents = <<>>

(* C3, as stated: an overlap with an apex outside the tail-hit position     *)
(* takes no life and emits no player-hit event, invulnerable or not.        *)
ApexFrontContactIsNonEvent ==
    \A i \in DOMAIN collisions :
        (collisions[i].kind = "apex" /\ collisions[i].overlap /\ ~collisions[i].tailOpen)
            => Unhurt(collisions[i])

(* C3, amended: an overlap with an apex outside the tail-hit position is a  *)
(* hostile contact: it takes one life and emits player-hit when the player  *)
(* is not invulnerable, and does nothing when the player is invulnerable.   *)
ApexFrontContactIsHostile ==
    \A i \in DOMAIN collisions :
        (collisions[i].kind = "apex" /\ collisions[i].overlap /\ ~collisions[i].tailOpen)
            => IF collisions[i].invulnerable
               THEN collisions[i].events = <<>> /\ Unhurt(collisions[i])
               ELSE LifeLost(collisions[i])

ApexFrontContactIsHostileWitness ==
    \E i \in DOMAIN collisions :
        /\ collisions[i].kind = "apex" /\ collisions[i].overlap
        /\ ~collisions[i].tailOpen /\ ~collisions[i].invulnerable
        /\ collisions[i].livesBefore = 3

(* C4: after a hostile contact that leaves lives > 0 the player is          *)
(* respawned and the state the tick returns holds no entity within 120      *)
(* units of the new player position.                                        *)
RespawnCullsNearbyEntities ==
    (/\ op = "tickGame"
     /\ \E i \in DOMAIN pendingEvents :
           pendingEvents[i].type = "player-hit" /\ pendingEvents[i].livesRemaining > 0)
        => \A j \in DOMAIN entities : distGreater(entities[j].pos, player.pos, RESPAWN_CULL_RADIUS)

(* C5: an overlapping prey or predator of size class s meets a player of    *)
(* tier t: it is eaten exactly when s <= t, the hostile path (life lost,    *)
(* player-hit) runs exactly when s > t and the player is not invulnerable,  *)
(* and never both.                                                          *)
EdibilitySymmetry ==
    \A i \in DOMAIN collisions :
        (collisions[i].kind \in {"prey", "predator"} /\ collisions[i].overlap)
            => /\ collisions[i].consumed <=> collisions[i].sizeClass <= collisions[i].tier
               /\ LifeLost(collisions[i])
                      <=> (collisions[i].sizeClass > collisions[i].tier /\ ~collisions[i].invulnerable)
               /\ ~Unhurt(collisions[i])
                      <=> (collisions[i].sizeClass > collisions[i].tier /\ ~collisions[i].invulnerable)
               /\ ~(collisions[i].consumed /\ LifeLost(collisions[i]))

\* one tick with a fish eaten, a fish that took a life, both overlapping
EdibilitySymmetryWitness ==
    /\ \E i \in DOMAIN collisions :
          /\ collisions[i].kind \in {"prey", "predator"} /\ collisions[i].overlap
          /\ collisions[i].sizeClass = collisions[i].tier /\ collisions[i].consumed
    /\ \E j \in DOMAIN collisions :
          /\ collisions[j].kind \in {"prey", "predator"} /\ collisions[j].overlap
          /\ collisions[j].sizeClass > collisions[j].tier /\ LifeLost(collisions[j])

(* C6: eating an overlapping edible fish of class c emits one eat event and *)
(* then one score event of floor(base(c) * scoreMultiplier), base 90, 135,  *)
(* 175, 225 for classes 1..4; the score rises by that amount, preyEaten by  *)
(* one, and the fish is not in the entity list the tick returns.            *)
EatScoresOnce ==
    \A i \in DOMAIN collisions :
        (/\ op = "tickGame"
         /\ collisions[i].kind \in {"prey", "predator"} /\ collisions[i].overlap
         /\ collisions[i].sizeClass <= collisions[i].tier)
            => /\ collisions[i].events =
                     << [type |-> "eat", kind |-> collisions[i].kind,
                         sizeClass |-> collisions[i].sizeClass],
                        [type |-> "score",
                         amount |-> (<<90, 135, 175, 225>>[collisions[i].sizeClass]
                                     * difficulty.scoreMultiplier) \div 100] >>
               /\ collisions[i].scoreAfter - collisions[i].scoreBefore =
                     (<<90, 135, 175, 225>>[collisions[i].sizeClass]
                      * difficulty.scoreMultiplier) \div 100
               /\ collisions[i].eatenAfter = collisions[i].eatenBefore + 1
               /\ \A j \in DOMAIN entities : entities[j].id # collisions[i].id

\* a fish eaten where floor and rounding differ (168.75 points on hard)
EatScoresOnceWitness ==
    /\ op = "tickGame"
    /\ difficulty.key = "hard"
    /\ \E i \in DOMAIN collisions :
          /\ collisions[i].overlap /\ collisions[i].consumed
          /\ collisions[i].sizeClass = 2
          /\ collisions[i].scoreAfter = collisions[i].scoreBefore + 168

(* C7: no tick lowers run.score, and every score event a tick emits has a   *)
(* non-negative amount.                                                     *)
ScoreNeverFalls ==
    [][op' = "tickGame" =>
          /\ run'.score >= run.score
          /\ \A i \in DOMAIN pendingEvents' :
                pendingEvents'[i].type = "score" => pendingEvents'[i].amount >= 0]_vars

\* a tick that killed an apex: hit points and kill bonus in one tick
ScoreNeverFallsWitness ==
    /\ op = "tickGame"
    /\ HasEvent("apex-killed")
    /\ \E i \in DOMAIN collisions : collisions[i].scoreAfter > collisions[i].scoreBefore

(* C8: player.sizeTier never falls from tick to tick and is always in 1..5, *)
(* also when the score keeps crossing growth thresholds.                    *)
SizeTierGrowsToFive ==
    /\ [](player.sizeTier \in 1..MAX_SIZE_TIER)
    /\ [][op' = "tickGame" => player'.sizeTier >= player.sizeTier]_vars

\* full-grown, points scored in this tick, the score beyond the next growth threshold
SizeTierGrowsToFiveWitness ==
    /\ op = "tickGame"
    /\ player.sizeTier = 5
    /\ run.score >= run.nextGrowthScore
    /\ HasEvent("score")

(* C9: apexThreat.intensity is within [0, 1] (0..1000 thousandths) in every *)
(* reachable state, with no, one or several apexes, hits and kills included.*)
ApexIntensityInUnitRange == apexThreat.intensity \in 0..1000

\* an apex killed in this tick while a second, wounded apex lives on
ApexIntensityInUnitRangeWitness ==
    /\ op = "tickGame"
    /\ HasEvent("apex-killed")
    /\ apexThreat.activeCount >= 1
    /\ apexThreat.intensity > 0

(* C10: no two entities of a state share an id, every id is below           *)
(* nextEntityId, and an entity a tick adds has an id no lower than the      *)
(* nextEntityId before the tick: above every id issued so far, those of     *)
(* eaten or killed entities included.                                       *)
EntityIdsAreFresh ==
    /\ [](/\ \A i, j \in DOMAIN entities : entities[i].id = entities[j].id => i = j
          /\ \A i \in DOMAIN entities : entities[i].id < nextEntityId)
    /\ [][op' = "tickGame" =>
             /\ nextEntityId' >= nextEntityId
             /\ \A j \in DOMAIN entities' :
                   (\A i \in DOMAIN entities : entities[i].id # entities'[j].id)
                       => entities'[j].id >= nextEntityId]_vars

\* a tick that ate a fish and spawned four entities
EntityIdsAreFreshWitness ==
    /\ op = "tickGame"
    /\ \E i \in DOMAIN collisions : collisions[i].consumed
    /\ \A k \in 1..4 : \E j \in DOMAIN entities : entities[j].id = nextEntityId - k
    /\ spawnTimers.prey = 0 /\ spawnTimers.apex = 0

(* C11: an entity carries a combat record if and only if it is an apex,    *)
(* and every apex is of size class 5; an apex as spawnAtEdge makes it, and  *)
(* every apex not yet hit, has health = maxHealth = difficulty.apexMaxHealth*)
(* and no prior hit; spawnAtEdge gives no other kind a combat record.       *)
CombatRecordIffApex ==
    /\ \A i \in DOMAIN entities :
          /\ entities[i].combat # <<>> <=> entities[i].kind = "apex"
          /\ entities[i].kind = "apex" =>
                /\ entities[i].sizeClass = 5
                /\ entities[i].combat[1].maxHealth = difficulty.apexMaxHealth
                /\ entities[i].combat[1].lastHitAt < 0 =>
                      entities[i].combat[1].health = difficulty.apexMaxHealth
    /\ \A d \in RandomDraws :
          /\ spawnAtEdge(State, "apex", d).sizeClass = 5
          /\ Len(spawnAtEdge(State, "apex", d).combat) = 1
          /\ spawnAtEdge(State, "apex", d).combat[1].health = difficulty.apexMaxHealth
          /\ spawnAtEdge(State, "apex", d).combat[1].maxHealth = difficulty.apexMaxHealth
          /\ spawnAtEdge(State, "apex", d).combat[1].lastHitAt = -999000
          /\ \A kind \in {"prey", "predator", "hazard"} : spawnAtEdge(State, kind, d).combat = <<>>

\* a tick that spawned an apex and a hazard beside a wounded apex or other fish
CombatRecordIffApexWitness ==
    /\ op = "tickGame"
    /\ spawnTimers.apex = 0
    /\ \E i, j, k \in DOMAIN entities :
          /\ entities[i].kind = "apex" /\ entities[i].id = nextEntityId - 2
          /\ entities[i].combat[1].lastHitAt = -999000
          /\ entities[j].kind = "hazard" /\ entities[j].id = nextEntityId - 1
          /\ entities[k].kind = "apex" /\ entities[k].id < entities[i].id

\* the events the collision loop pushed, in order
RECURSIVE CollisionEvents(_)
CollisionEvents(log) ==
    IF log = <<>> THEN <<>> ELSE Head(log).events \o CollisionEvents(Tail(log))

CountEvents(events, type) == Cardinality({i \in DOMAIN events : events[i].type = type})

(* C12: pendingEvents of the state a tick returns holds exactly the events  *)
(* of that tick: those of its collision loop, in order, then one growth     *)
(* event per tier gained, one extra-life event per life granted and at most *)
(* one milestone event; nothing is carried over, and a tick in title,       *)
(* paused or gameOver returns an empty list.                                *)
EventsOfThisTickOnly ==
    [][op' = "tickGame" =>
          /\ (mode' \in {"title", "paused"} \/ mode = "gameOver") => pendingEvents' = <<>>
          /\ Len(pendingEvents') >= Len(CollisionEvents(collisions'))
          /\ SubSeq(pendingEvents', 1, Len(CollisionEvents(collisions'))) = CollisionEvents(collisions')
          /\ \A i \in DOMAIN pendingEvents' :
                i > Len(CollisionEvents(collisions'))
                    => pendingEvents'[i].type \in {"growth", "extra-life", "milestone"}
          /\ CountEvents(pendingEvents', "growth") = player'.sizeTier - player.sizeTier
          /\ CountEvents(pendingEvents', "extra-life") =
                player'.lives - (IF collisions' = <<>> THEN player.lives
                                 ELSE collisions'[Len(collisions')].livesAfter)
          /\ CountEvents(pendingEvents', "milestone") =
                (IF run'.milestone > run.milestone THEN 1 ELSE 0)]_vars

\* the second tick of a run that ate its twelfth fish and grew in the first: no events
EventsOfThisTickOnlyWitness ==
    /\ op = "tickGame"
    /\ ticks = 2
    /\ mode = "playing"
    /\ run.preyEaten = 12 /\ run.score = 1080 /\ player.sizeTier = 3
    /\ pendingEvents = <<>>

GrowthEvents(events) == SelectSeq(events, LAMBDA e : e.type = "growth")

\* growth thresholds at or below the score: nextGrowthScore, nextGrowthScore + 1000, ...
ThresholdsCrossed(score, nextGrowthScore) ==
    IF score < nextGrowthScore THEN 0 ELSE (score - nextGrowthScore) \div 1000 + 1

(* C13: a tick whose score crosses k growth thresholds while tier < 5 emits *)
(* min(k, 5 - tier) growth events, with tiers tier + 1, tier + 2, ... in    *)
(* that order, and advances nextGrowthScore by 1000 for each of them.       *)
GrowthEventPerThreshold ==
    [][op' = "tickGame" =>
          /\ Len(GrowthEvents(pendingEvents')) =
                Min(ThresholdsCrossed(run'.score, run.nextGrowthScore), 5 - player.sizeTier)
          /\ \A i \in DOMAIN GrowthEvents(pendingEvents') :
                GrowthEvents(pendingEvents')[i].sizeTier = player.sizeTier + i
          /\ run'.nextGrowthScore = run.nextGrowthScore + 1000 * Len(GrowthEvents(pendingEvents'))]_vars

\* an apex kill worth 1500 points took the score from 1900 to 3400: tiers 4 and 5
GrowthEventPerThresholdWitness ==
    /\ op = "tickGame"
    /\ Len(GrowthEvents(pendingEvents)) = 2
    /\ GrowthEvents(pendingEvents)[1].sizeTier = 4
    /\ GrowthEvents(pendingEvents)[2].sizeTier = 5
    /\ run.score = 3400 /\ run.nextGrowthScore = 4000

(* C14, as stated: an apex-hit event with health = 0 has an apex-killed     *)
(* event for the same entity as the very next event of the tick's list,    *)
(* and the apex is not among the entities of the returned state.           *)
KillFollowsHitAtOnce ==
    \A i \in DOMAIN pendingEvents :
        (pendingEvents[i].type = "apex-hit" /\ pendingEvents[i].health = 0)
            => /\ i + 1 \in DOMAIN pendingEvents
               /\ pendingEvents[i + 1].type = "apex-killed"
               /\ pendingEvents[i + 1].entityId = pendingEvents[i].entityId
               /\ \A j \in DOMAIN entities : entities[j].id # pendingEvents[i].entityId

(* C14, amended: an apex-hit event with health = 0 is followed in the same  *)
(* tick's list by the score event of the hit, the apex-intensity event, the *)
(* score event of the kill bonus (twice the hit's points) and then the      *)
(* apex-killed event for the same entity; the apex is not among the         *)
(* entities of the returned state. A hit that leaves health > 0 has no      *)
(* apex-killed event for that entity and the apex stays.                    *)
KillFollowsHitAfterScores ==
    \A i \in DOMAIN pendingEvents :
        pendingEvents[i].type = "apex-hit" =>
            IF pendingEvents[i].health = 0
            THEN /\ i + 4 \in DOMAIN pendingEvents
                 /\ pendingEvents[i + 1] = [type |-> "score", amount |-> pendingEvents[i].points]
                 /\ pendingEvents[i + 2].type = "apex-intensity"
                 /\ pendingEvents[i + 3] = [type |-> "score", amount |-> 2 * pendingEvents[i].points]
                 /\ pendingEvents[i + 4].type = "apex-killed"
                 /\ pendingEvents[i + 4].entityId = pendingEvents[i].entityId
                 /\ pendingEvents[i + 4].points = 2 * pendingEvents[i].points
                 /\ \A j \in DOMAIN entities : entities[j].id # pendingEvents[i].entityId
            ELSE /\ \A k \in DOMAIN pendingEvents :
                       pendingEvents[k].type = "apex-killed"
                           => pendingEvents[k].entityId # pendingEvents[i].entityId
                 /\ \E j \in DOMAIN entities : entities[j].id = pendingEvents[i].entityId

\* the last point of health of a normal apex taken by a tier-3 player
KillFollowsHitAfterScoresWitness ==
    /\ op = "tickGame"
    /\ difficulty.key = "normal"
    /\ \E i \in DOMAIN pendingEvents :
          /\ pendingEvents[i].type = "apex-hit" /\ pendingEvents[i].health = 0
          /\ pendingEvents[i].entityId = 7
    /\ entities = <<>>

(* C15: the health of every apex-hit event a tick emits is >= 0: it is     *)
(* max(0, health before the tick - damage) of the apex hit, also when the  *)
(* damage exceeds the health the apex had left.                            *)
ApexHitHealthNotNegative ==
    [][op' = "tickGame" =>
          \A i \in DOMAIN pendingEvents' :
              pendingEvents'[i].type = "apex-hit" =>
                  /\ pendingEvents'[i].health >= 0
                  /\ \E j \in DOMAIN entities :
                        /\ entities[j].id = pendingEvents'[i].entityId
                        /\ entities[j].kind = "apex"
                        /\ pendingEvents'[i].health =
                              Max(0, entities[j].combat[1].health - pendingEvents'[i].damage)]_vars

\* a tier-5 player dealt 3 damage to the hard apex that had 1 health left
ApexHitHealthNotNegativeWitness ==
    /\ op = "tickGame"
    /\ player.sizeTier = 5
    /\ \E i \in DOMAIN pendingEvents :
          /\ pendingEvents[i].type = "apex-hit"
          /\ pendingEvents[i].entityId = 5
          /\ pendingEvents[i].damage = 3
          /\ pendingEvents[i].health = 0

\* a tick that did not simulate: the clock moved, the events were cleared
Frozen(s, dtMs) == [s EXCEPT !.elapsedMs = @ + dtMs, !.pendingEvents = <<>>]

(* C16: tickGame with pausePressed turns playing into paused without        *)
(* simulating, and paused into playing with the simulation run in the same  *)
(* tick (which may end it in gameOver); pausePressed changes nothing in     *)
(* title or gameOver; besides these, the only change of mode by a tick is   *)
(* playing to gameOver on a contact that exhausts the lives, and a tick     *)
(* never leaves title.                                                      *)
ModeTransitionsOfTick ==
    /\ [](\A movement \in Movements, dtMs \in DtChoices, d \in RandomDraws :
            /\ mode = "playing" =>
                  tickGame(State, [movement |-> movement, pausePressed |-> TRUE], dtMs, d).state
                      = [Frozen(State, dtMs) EXCEPT !.mode = "paused"]
            /\ mode = "paused" =>
                  /\ applyPause(State, TRUE).mode = "playing"
                  /\ tickGame(State, [movement |-> movement, pausePressed |-> FALSE], dtMs, d).state
                         = Frozen(State, dtMs)
            /\ mode \in {"title", "gameOver"} =>
                  \A pausePressed \in BOOLEAN :
                      tickGame(State, [movement |-> movement, pausePressed |-> pausePressed],
                               dtMs, d).state = Frozen(State, dtMs))
    /\ [][op' = "tickGame" =>
             /\ mode' # mode =>
                   <<mode, mode'>> \in {<<"playing", "paused">>, <<"paused", "playing">>,
                                        <<"paused", "gameOver">>, <<"playing", "gameOver">>}
             /\ (mode = "paused" /\ mode' # "paused") =>
                   run'.timeSeconds = run.timeSeconds + clamp(elapsedMs' - elapsedMs, 0, 50)
             /\ (mode # "gameOver" /\ mode' = "gameOver") =>
                   \E i \in DOMAIN collisions' :
                       /\ collisions'[i].livesAfter < collisions'[i].livesBefore
                       /\ collisions'[i].livesAfter <= 0]_vars

\* paused by the first tick, resumed and simulated by the second, 20 ms each
ModeTransitionsOfTickWitness ==
    /\ op = "tickGame"
    /\ ticks = 2
    /\ mode = "playing"
    /\ elapsedMs = run.timeSeconds + 20
    /\ run.timeSeconds = 30020

(* C17: while mode is paused or title, a tick without a pause toggle leaves  *)
(* player, entities, run, spawnTimers, apexThreat and the elapsedMs clock   *)
(* that drives hazard steering unchanged.                                   *)
PausedTickFreezesWorldAndClock ==
    [][(op' = "tickGame" /\ mode \in {"paused", "title"} /\ mode' = mode) =>
           UNCHANGED <<player, entities, run, spawnTimers, apexThreat, elapsedMs>>]_vars

\* update takes the restart branch of this frame
RestartFires ==
    /\ difficulty.key = host.selectedDifficulty
    /\ mode = "gameOver"
    /\ host.restartRunRef \/ host.startHeld

(* C18: a restart request made while mode is not gameOver neither rebuilds  *)
(* the world when it is made nor restarts the run later: a frame restarts   *)
(* only on a request made in gameOver (or while the start key is down).     *)
RestartOutsideGameOverIsNoOp ==
    /\ [][op' = "requestRestart" => UNCHANGED engineVars]_vars
    /\ [][(op' = "update" /\ RestartFires) =>
              (host.startHeld \/ restartAsked = "gameOver")]_vars

(* C19: a new run started from title or gameOver is a world rebuilt from the *)
(* same difficulty profile in mode playing: score 0, timeSeconds 0,         *)
(* preyEaten 0, milestone 0, no entities, spawn timers 0, nextEntityId 1,   *)
(* lives = startingLives, sizeTier 2, invulnerableUntil 0, threat intensity *)
(* 0 and no pending events.                                                 *)
NewRunRebuildsWorld ==
    [][op' = "startNewRun" =>
           /\ mode \in {"title", "gameOver"}
           /\ mode' = "playing"
           /\ difficulty' = difficulty
           /\ run'.score = 0 /\ run'.timeSeconds = 0 /\ run'.preyEaten = 0 /\ run'.milestone = 0
           /\ entities' = <<>>
           /\ \A k \in DOMAIN spawnTimers' : spawnTimers'[k] = 0
           /\ nextEntityId' = 1
           /\ player'.lives = difficulty.startingLives
           /\ player'.sizeTier = 2
           /\ player'.invulnerableUntil = 0
           /\ apexThreat'.intensity = 0
           /\ pendingEvents' = <<>>]_vars

\* a new run started after the tick that took the last life of a run with progress
NewRunRebuildsWorldWitness ==
    /\ op = "startNewRun"
    /\ mode = "playing"
    /\ \E i \in DOMAIN collisions :
          /\ collisions[i].livesBefore = 1
          /\ collisions[i].livesAfter = 0
    /\ run.score = 0
    /\ player.lives = difficulty.startingLives
    /\ host.selectedDifficulty = "hard"

(* C20: a frame that finds the selected difficulty different from the       *)
(* state's rebuilds the world at title with the new profile (score 0, no    *)
(* entities, lives = the new profile's startingLives), also in the middle   *)
(* of a run, and the tick of that frame does not simulate the old run: the  *)
(* frame returns the new title world, or, when a start is asked for, the    *)
(* first step of a new run on the new profile.                              *)
DifficultySwapRebuildsAtTitle ==
    [][(op' = "update" /\ difficulty.key # host.selectedDifficulty) =>
           /\ difficulty' = difficulties[host.selectedDifficulty]
           /\ run'.score = 0
           /\ entities' = <<>>
           /\ player'.lives = difficulties[host.selectedDifficulty].startingLives
           /\ setDifficulty(State, host.selectedDifficulty).mode = "title"
           /\ IF host.startRunRef \/ host.startHeld
              THEN mode' \in {"playing", "paused"} /\ run'.timeSeconds <= 50
              ELSE /\ mode' = "title"
                   /\ \E dtMs \in FrameDts :
                         IsState(Frozen(createInitialGameState(host.selectedDifficulty), dtMs))']_vars

\* the frame after the selection changed in the middle of a run
DifficultySwapRebuildsAtTitleWitness ==
    /\ op = "update"
    /\ ticks = 1
    /\ restartAsked = "playing"
    /\ mode = "title"
    /\ difficulty.key = "easy"
    /\ player.lives = difficulties["easy"].startingLives

\* two outcomes of one tick agree unless one of them spawned something
SameUnlessSpawned(a, b, id) == (a.nextEntityId = id /\ b.nextEntityId = id) => a = b

(* C21: in a tick in which no entity spawns the returned state is a function *)
(* of the previous state, the input and dtMs alone: two executions with     *)
(* different random draws return equal states.                              *)
TickDeterministicWithoutSpawn ==
    mode = "playing" =>
        \A movement \in Movements, dtMs \in DtChoices, d1 \in RandomDraws, d2 \in RandomDraws :
            SameUnlessSpawned(
                tickGame(State, [movement |-> movement, pausePressed |-> FALSE], dtMs, d1).state,
                tickGame(State, [movement |-> movement, pausePressed |-> FALSE], dtMs, d2).state,
                nextEntityId)

(* C22: a game-over event carries the final score: its finalScore equals    *)
(* run.score of the state returned by the tick that emitted it, and the     *)
(* score of a run in gameOver does not change in later ticks.               *)
GameOverCarriesFinalScore ==
    /\ [](op = "tickGame" =>
            \A i \in DOMAIN pendingEvents :
                pendingEvents[i].type = "game-over" => pendingEvents[i].finalScore = run.score)
    /\ [][(op' = "tickGame" /\ mode = "gameOver") => run'.score = run.score]_vars

\* the tick from the current state to the next ran the simulation
Simulated ==
    /\ op' = "tickGame"
    /\ mode \in {"playing", "paused"}
    /\ mode' # "paused"
    /\ mode = "paused" => mode' # mode

(* C23: whatever dtMs is, negative or large, a tick that simulates advances *)
(* run.timeSeconds by exactly clamp(dtMs / 1000, 0, 0.05): simulated time   *)
(* never decreases and never advances by more than 50 ms in one tick.       *)
TimeAdvancesByClampedDt ==
    [][Simulated =>
           /\ run'.timeSeconds = run.timeSeconds + Max(0, Min(50, elapsedMs' - elapsedMs))
           /\ run'.timeSeconds >= run.timeSeconds
           /\ run'.timeSeconds <= run.timeSeconds + 50]_vars

\* a tick of -20 ms and a tick of 1000 ms: the clock moved by 980 ms, the run by 50
TimeAdvancesByClampedDtWitness ==
    /\ op = "tickGame"
    /\ ticks = 2
    /\ mode = "playing"
    /\ elapsedMs = 30980
    /\ run.timeSeconds = 30050

CollisionEventTypes ==
    {"eat", "score", "player-hit", "game-over", "apex-hit", "apex-intensity", "apex-killed"}

ProgressEventTypes == {"growth", "extra-life", "milestone"}

\* the ids of a sequence of entities or of collision records, in order
RECURSIVE IdsOf(_)
IdsOf(seq) == IF seq = <<>> THEN <<>> ELSE <<Head(seq).id>> \o IdsOf(Tail(seq))

(* C24: the events of a tick are in the order generated: the collision and  *)
(* combat events, entity by entity in the order of state.entities, come     *)
(* before every growth, extra-life and milestone event.                     *)
CollisionEventsPrecedeProgress ==
    [][op' = "tickGame" =>
          /\ \A i \in DOMAIN pendingEvents' :
                pendingEvents'[i].type \in CollisionEventTypes \cup ProgressEventTypes
          /\ \A i \in DOMAIN pendingEvents', j \in DOMAIN pendingEvents' :
                (i < j /\ pendingEvents'[i].type \in ProgressEventTypes)
                    => pendingEvents'[j].type \in ProgressEventTypes
          /\ SelectSeq(pendingEvents', LAMBDA e : e.type \in CollisionEventTypes)
                = CollisionEvents(collisions')
          /\ \A k \in DOMAIN collisions' :
                \A n \in DOMAIN collisions'[k].events :
                    collisions'[k].events[n].type \in CollisionEventTypes
          /\ collisions' # <<>> =>
                SelectSeq(IdsOf(collisions'), LAMBDA id : id < nextEntityId) = IdsOf(entities)]_vars

\* two entities met in one tick, and the score they brought crossed a threshold
CollisionEventsPrecedeProgressWitness ==
    /\ op = "tickGame"
    /\ \E k \in DOMAIN collisions, m \in DOMAIN collisions :
          k < m /\ collisions[k].events # <<>> /\ collisions[m].events # <<>>
    /\ pendingEvents # <<>>
    /\ pendingEvents[Len(pendingEvents)].type \in ProgressEventTypes

(* C25: a hostile contact that leaves lives > 0 emits exactly one           *)
(* player-hit event, with livesRemaining = the lives before - 1, moves the  *)
(* player to x = 0.18 * arena.width with y in [100, height - 100], zeroes   *)
(* the velocity and sets invulnerableUntil = run.timeSeconds + the          *)
(* profile's grace period; no life is lost in a tick whose run.timeSeconds  *)
(* is still below invulnerableUntil.                                        *)
NonFatalHitRespawnsWithGrace ==
    [][op' = "tickGame" =>
          /\ \A k \in DOMAIN collisions' :
                (collisions'[k].livesAfter < collisions'[k].livesBefore /\ collisions'[k].livesAfter > 0) =>
                    /\ collisions'[k].events =
                           <<[type |-> "player-hit", livesRemaining |-> collisions'[k].livesBefore - 1]>>
                    /\ collisions'[k].posAfter.x = (ARENA.width * 18) \div 100
                    /\ collisions'[k].posAfter.y >= 100
                    /\ collisions'[k].posAfter.y <= ARENA.height - 100
                    /\ player'.pos = collisions'[k].posAfter
                    /\ player'.vel = [x |-> 0, y |-> 0]
                    /\ player'.invulnerableUntil = run'.timeSeconds + difficulty.graceSecondsAfterRespawn
                    /\ CountEvents(pendingEvents', "player-hit") = 1
                    /\ \A m \in DOMAIN collisions' : m > k => collisions'[m].livesAfter = collisions'[k].livesAfter
          /\ run'.timeSeconds < player.invulnerableUntil =>
                \A k \in DOMAIN collisions' : collisions'[k].livesAfter >= collisions'[k].livesBefore]_vars

\* a hit took the third life and respawned the player; the next tick ran
\* within the grace period
NonFatalHitRespawnsWithGraceWitness ==
    /\ op = "tickGame"
    /\ ticks = 2
    /\ mode = "playing"
    /\ player.lives = 2
    /\ difficulty.startingLives = 3
    /\ player.pos.x = 172
    /\ player.invulnerableUntil = run.timeSeconds - 20 + difficulty.graceSecondsAfterRespawn
    /\ \A k \in DOMAIN collisions : collisions[k].livesAfter = collisions[k].livesBefore

ExtraLifeEvents(events) == SelectSeq(events, LAMBDA e : e.type = "extra-life")

\* the lives the collision loop of the last tick left
LivesAfterCollisions(log, lives) == IF log = <<>> THEN lives ELSE log[Len(log)].livesAfter

\* the growth loop run on the state with a windfall added to the score
AfterWindfall(s, bonus) == updateGrowthLoop([s EXCEPT !.run.score = @ + bonus, !.pendingEvents = <<>>])

\* the extra-life events of r, a result of the growth loop on s, are n, in
\* order, each for one threshold at or below the score
ExtraLivesInOrder(s, r, n) ==
    /\ Len(ExtraLifeEvents(r.pendingEvents)) = n
    /\ \A k \in 1..n :
          /\ ExtraLifeEvents(r.pendingEvents)[k].lives = s.player.lives + k
          /\ r.run.score >= s.run.nextExtraLifeScore + (k - 1) * s.difficulty.extraLifeScoreStep
    /\ r.player.lives = s.player.lives + n
    /\ r.run.nextExtraLifeScore = s.run.nextExtraLifeScore + n * s.difficulty.extraLifeScoreStep
    /\ r.run.score < r.run.nextExtraLifeScore
    /\ n > 0 => r.player.sizeTier = MAX_SIZE_TIER

(* C26: extra lives are granted only at tier 5: an extra-life event needs   *)
(* sizeTier = 5 and score >= nextExtraLifeScore, each raises lives by 1 and *)
(* nextExtraLifeScore by extraLifeScoreStep, several thresholds crossed at  *)
(* once fire in order, and the loop ends with score < nextExtraLifeScore.   *)
ExtraLivesOnlyAtMaxTier ==
    /\ [][op' = "tickGame" =>
             /\ CountEvents(pendingEvents', "extra-life") > 0 =>
                   /\ player'.sizeTier = MAX_SIZE_TIER
                   /\ run'.score >= run.nextExtraLifeScore
             /\ \A k \in DOMAIN ExtraLifeEvents(pendingEvents') :
                   ExtraLifeEvents(pendingEvents')[k].lives
                       = LivesAfterCollisions(collisions', player.lives) + k
             /\ player'.lives = LivesAfterCollisions(collisions', player.lives)
                                    + CountEvents(pendingEvents', "extra-life")
             /\ run'.nextExtraLifeScore = run.nextExtraLifeScore
                    + CountEvents(pendingEvents', "extra-life") * difficulty.extraLifeScoreStep
             /\ run'.score < run'.nextExtraLifeScore]_vars
    /\ [](mode = "playing" =>
            \A n \in 0..2 :
                /\ player.sizeTier = MAX_SIZE_TIER =>
                      ExtraLivesInOrder(State,
                          AfterWindfall(State, run.nextExtraLifeScore - run.score
                                                   + n * difficulty.extraLifeScoreStep - 1),
                          n)
                /\ player.sizeTier < MAX_SIZE_TIER - 1 =>
                      ExtraLifeEvents(AfterWindfall(State, run.nextGrowthScore - run.score
                                                               + n * GROWTH_STEP).pendingEvents) = <<>>)

\* a tick at tier 5 whose score crossed the extra-life threshold: one more life
ExtraLivesOnlyAtMaxTierWitness ==
    /\ op = "tickGame"
    /\ player.sizeTier = MAX_SIZE_TIER
    /\ ExtraLifeEvents(pendingEvents) # <<>>
    /\ run.nextExtraLifeScore = 6000 + difficulty.extraLifeScoreStep
    /\ run.score >= 6000
    /\ player.lives = LivesAfterCollisions(collisions, 0) + 1

MilestoneEvents(events) == SelectSeq(events, LAMBDA e : e.type = "milestone")

(* C27: after every tick run.milestone = floor(run.score / 1000), and a     *)
(* milestone event, carrying the new floor, is emitted in exactly the ticks *)
(* in which floor(score / 1000) increased, whatever the tier and whether or *)
(* not the player grew.                                                     *)
MilestoneFollowsScore ==
    /\ [](op = "tickGame" => run.milestone = run.score \div 1000)
    /\ [][op' = "tickGame" =>
             MilestoneEvents(pendingEvents') =
                 IF run'.score \div 1000 > run.score \div 1000
                 THEN <<[type |-> "milestone", value |-> run'.score \div 1000]>>
                 ELSE <<>>]_vars

\* at tier 5 nothing grows, and the score passing a thousand still gives a milestone
MilestoneFollowsScoreWitness ==
    /\ op = "tickGame"
    /\ player.sizeTier = MAX_SIZE_TIER
    /\ MilestoneEvents(pendingEvents) # <<>>
    /\ GrowthEvents(pendingEvents) = <<>>
    /\ run.milestone = run.score \div 1000

HealthBefore(id) ==
    IF \E i \in DOMAIN entities : entities[i].id = id
    THEN (CHOOSE e \in {entities[i] : i \in DOMAIN entities} : e.id = id).combat[1].health
    ELSE difficulty.apexMaxHealth

\* the contact was a tail hit on an apex
TailHit(c) == c.kind = "apex" /\ c.events # <<>> /\ c.events[1].type = "apex-hit"

TierDamage(tier) == IF tier < 3 THEN 1 ELSE IF tier < 5 THEN 2 ELSE 3

(* C29: a tail hit takes 1 health from the apex when the player's tier is   *)
(* below 3, 2 at tier 3 or 4 and 3 at tier 5, and adds                      *)
(* floor(500 * scoreMultiplier) to the score; a hit that brings the health  *)
(* to 0 or below adds a kill bonus of twice those points as well.           *)
TailHitDamageAndPoints ==
    /\ [](\A tier \in 1..MAX_SIZE_TIER : apexTailDamageForPlayer(tier) = TierDamage(tier))
    /\ [][op' = "tickGame" =>
             \A k \in DOMAIN collisions' :
                 TailHit(collisions'[k]) =>
                     /\ collisions'[k].events[1].damage = TierDamage(collisions'[k].tier)
                     /\ collisions'[k].events[1].points = (500 * difficulty.scoreMultiplier) \div 100
                     /\ collisions'[k].scoreAfter - collisions'[k].scoreBefore =
                            IF HealthBefore(collisions'[k].id) - TierDamage(collisions'[k].tier) <= 0
                            THEN 3 * ((500 * difficulty.scoreMultiplier) \div 100)
                            ELSE (500 * difficulty.scoreMultiplier) \div 100
                     /\ \A i \in DOMAIN entities' :
                           entities'[i].id = collisions'[k].id =>
                               entities'[i].combat[1].health =
                                   HealthBefore(collisions'[k].id) - TierDamage(collisions'[k].tier)
                     /\ (\E i \in DOMAIN entities' : entities'[i].id = collisions'[k].id)
                           <=> HealthBefore(collisions'[k].id) - TierDamage(collisions'[k].tier) > 0]_vars

\* a tier-3 player's hit, 2 health, killed the apex: 500 points and 1000 of bonus
TailHitDamageAndPointsWitness ==
    /\ op = "tickGame"
    /\ difficulty.key = "normal"
    /\ \E k \in DOMAIN collisions :
          /\ TailHit(collisions[k])
          /\ collisions[k].tier = 3
          /\ collisions[k].events[1].damage = 2
          /\ collisions[k].scoreAfter = collisions[k].scoreBefore + 1500

\* combat.lastHitAt of the apex with this id before the tick; never, if the tick spawned it
LastHitBefore(id) ==
    IF \E i \in DOMAIN entities : entities[i].id = id
    THEN (CHOOSE e \in {entities[i] : i \in DOMAIN entities} : e.id = id).combat[1].lastHitAt
    ELSE -999000

\* the apex with this id was hit in the tick that wrote this log
HitIn(log, id) == \E k \in DOMAIN log : log[k].id = id /\ TailHit(log[k])

(* C30: two apex-hit events of one apex are at least 0.45 simulated seconds *)
(* apart: a hit needs run.timeSeconds - lastHitAt >= 0.45 s for that apex,  *)
(* where lastHitAt is the time of its last hit, however many ticks the      *)
(* player stays at the tail; a hit on one apex leaves the cooldown of the   *)
(* others alone.                                                            *)
ApexHitCooldownPerApex ==
    /\ [](\A i \in DOMAIN entities :
             entities[i].combat # <<>> => entities[i].combat[1].lastHitAt <= run.timeSeconds)
    /\ [][op' = "tickGame" =>
             /\ \A k \in DOMAIN collisions' :
                   TailHit(collisions'[k]) =>
                       run'.timeSeconds - LastHitBefore(collisions'[k].id) >= 450
             /\ \A i \in DOMAIN entities' :
                   entities'[i].kind = "apex" =>
                       entities'[i].combat[1].lastHitAt =
                           IF HitIn(collisions', entities'[i].id) THEN run'.timeSeconds
                           ELSE LastHitBefore(entities'[i].id)
             /\ \A n \in DOMAIN pendingEvents', m \in DOMAIN pendingEvents' :
                   (/\ pendingEvents'[n].type = "apex-hit" /\ pendingEvents'[m].type = "apex-hit"
                    /\ pendingEvents'[n].entityId = pendingEvents'[m].entityId) => n = m]_vars

\* 220 ms after its last hit the player is at the apex's tail again: no hit
ApexHitCooldownPerApexWitness ==
    /\ op = "tickGame"
    /\ \E k \in DOMAIN collisions :
          /\ collisions[k].kind = "apex"
          /\ collisions[k].overlap /\ collisions[k].tailOpen
          /\ ~collisions[k].cooldownReady
          /\ ~TailHit(collisions[k])
    /\ run.timeSeconds - apexThreat.lastHitAt = 220
    /\ ~HasEvent("apex-hit")

SpawnKinds == {"prey", "predator", "apex", "hazard"}

\* the kinds of the entities a tick spawned, read from its log: ids from nextId on
SpawnedOf(log, nextId, kind) == {k \in DOMAIN log : log[k].id >= nextId /\ log[k].kind = kind}

CapOf(kind) ==
    CASE kind = "prey" -> difficulty.maxPrey
      [] kind = "predator" -> difficulty.maxPredators
      [] kind = "apex" -> difficulty.maxApex
      [] OTHER -> difficulty.maxHazards

RateOf(kind) ==
    CASE kind = "prey" -> difficulty.preySpawnPerSecond
      [] kind = "predator" -> difficulty.predatorSpawnPerSecond
      [] kind = "apex" -> difficulty.apexSpawnPerSecond
      [] OTHER -> difficulty.hazardSpawnPerSecond

CountOf(ents, kind) == Cardinality({i \in DOMAIN ents : ents[i].kind = kind})

(* C31: in every reachable state the entities of each kind number at most   *)
(* the difficulty's cap for the kind; a tick spawns at most one entity of a *)
(* kind, none of a kind that is locked or at its cap, and none of a kind    *)
(* whose spawn rate is 0 or less.                                           *)
PopulationWithinCaps ==
    /\ [](\A kind \in SpawnKinds : CountOf(entities, kind) <= CapOf(kind))
    /\ [][op' = "tickGame" =>
             /\ nextEntityId' - nextEntityId =
                    Cardinality({k \in DOMAIN collisions' : collisions'[k].id >= nextEntityId})
             /\ \A kind \in SpawnKinds :
                   /\ Cardinality(SpawnedOf(collisions', nextEntityId, kind)) <= 1
                   /\ SpawnedOf(collisions', nextEntityId, kind) # {} =>
                         /\ isKindUnlocked([State EXCEPT !.run.timeSeconds = run'.timeSeconds], kind)
                         /\ CountOf(entities, kind) < CapOf(kind)
                         /\ RateOf(kind) > 0]_vars

\* one kind is at its cap with its timer past the interval and gets no new
\* entity, while the tick spawns an entity of another kind at the edge
PopulationWithinCapsWitness ==
    /\ op = "tickGame"
    /\ mode = "playing"
    /\ \E kind \in SpawnKinds :
          /\ CountOf(entities, kind) = CapOf(kind)
          /\ spawnTimers[kind] * RateOf(kind) >= 100000
    /\ \E k \in DOMAIN collisions :
          /\ collisions[k].id = nextEntityId - 1
          /\ spawnTimers[collisions[k].kind] = 0
          /\ \E i \in DOMAIN entities : /\ entities[i].id = collisions[k].id
                                        /\ entities[i].pos.x \notin 0..ARENA.width

\* the kind is unlocked at the tick's clock and under its population cap
Eligible(s, clock, kind) ==
    /\ isKindUnlocked([s EXCEPT !.run.timeSeconds = clock], kind)
    /\ CountOf(s.entities, kind) < CapOf(kind)

(* C32: a kind's spawn timer accumulates elapsed time only in ticks where   *)
(* the kind is eligible, that is unlocked and under its population cap; a   *)
(* timer that reaches 1/spawnRate is reset to zero with one spawn, so no    *)
(* tick leaves a timer at or past the interval.                             *)
SpawnTimerRunsOnlyWhenEligible ==
    [][op' = "tickGame" =>
          \A kind \in SpawnKinds :
             /\ spawnTimers'[kind] > spawnTimers[kind] => Eligible(State, run'.timeSeconds, kind)
             /\ (RateOf(kind) > 0 /\ spawnTimers'[kind] > spawnTimers[kind]) =>
                    spawnTimers'[kind] * RateOf(kind) < 100000]_vars

\* the entities a tick spawned that are still alive at its end
SpawnedAlive(ents, nextId) == {i \in DOMAIN ents : ents[i].id >= nextId}

Draws == 0..99
SpawnTiers == 1..MAX_SIZE_TIER
SpawnTimes == {0, 5000, 9990, 10000, 11990, 12000, 60000}

\* a state of the run at time t with a player of the given tier
SpawnCase(tier, t) == [player |-> [sizeTier |-> tier], run |-> [timeSeconds |-> t]]

\* the early-run rows of the size table, and its tier rows from 12 s (prey
\* channel) and 10 s (predator channel) on; the table does not depend on the
\* state of the world, so it is evaluated on the title screen only
SizeTableRows(tier, t, r) ==
    /\ pickNpcSizeForSpawn(SpawnCase(tier, t), "prey", r) \in 1..4
    /\ pickNpcSizeForSpawn(SpawnCase(tier, t), "predator", r) \in 1..4
    /\ t < 12000 => pickNpcSizeForSpawn(SpawnCase(tier, t), "prey", r) \in {1, 2}
    /\ t < 10000 => pickNpcSizeForSpawn(SpawnCase(tier, t), "predator", r) = 2
    /\ (tier >= 4 /\ t >= 12000) => pickNpcSizeForSpawn(SpawnCase(tier, t), "prey", r) # 1
    /\ (tier >= 3 /\ t >= 10000) => pickNpcSizeForSpawn(SpawnCase(tier, t), "predator", r) >= 3

ClassesByKind ==
    \A i \in DOMAIN entities :
       /\ entities[i].kind \in {"prey", "predator"} => entities[i].sizeClass \in 1..4
       /\ entities[i].kind = "apex" => entities[i].sizeClass = 5

(* C33 as stated: every prey/predator entity has size class 1..4 and every  *)
(* apex class 5; a prey-channel spawn before 12 s has class 1 or 2 and a    *)
(* predator-channel spawn before 10 s has class 2; at player tier >= 4 the  *)
(* prey channel never spawns class 1 and at tier >= 3 the predator channel  *)
(* never spawns a class below 3, at any run time.                           *)
SpawnSizesFollowTierAlways ==
    /\ [](ClassesByKind)
    /\ [][op' = "tickGame" =>
             \A i \in SpawnedAlive(entities', nextEntityId) :
                /\ (entities'[i].kind = "prey" /\ run'.timeSeconds < 12000) =>
                       entities'[i].sizeClass \in {1, 2}
                /\ (entities'[i].kind = "predator" /\ run'.timeSeconds < 10000) =>
                       entities'[i].sizeClass = 2
                /\ (entities'[i].kind = "prey" /\ player.sizeTier >= 4) =>
                       entities'[i].sizeClass # 1
                /\ (entities'[i].kind = "predator" /\ player.sizeTier >= 3) =>
                       entities'[i].sizeClass >= 3]_vars

(* C33, amended: every prey/predator entity has size class 1..4 and every   *)
(* apex class 5; a prey-channel spawn before 12 s has class 1 or 2 and a    *)
(* predator-channel spawn before 10 s has class 2; from 12 s on the prey    *)
(* channel spawns no class 1 at player tier >= 4, and from 10 s on the      *)
(* predator channel spawns no class below 3 at player tier >= 3.            *)
SpawnSizesFollowTierAfterEarlyRun ==
    /\ [](ClassesByKind)
    /\ [](mode = "title" =>
             \A tier \in SpawnTiers : \A t \in SpawnTimes : \A r \in Draws : SizeTableRows(tier, t, r))
    /\ [][op' = "tickGame" =>
             \A i \in SpawnedAlive(entities', nextEntityId) :
                /\ (entities'[i].kind = "prey" /\ run'.timeSeconds < 12000) =>
                       entities'[i].sizeClass \in {1, 2}
                /\ (entities'[i].kind = "predator" /\ run'.timeSeconds < 10000) =>
                       entities'[i].sizeClass = 2
                /\ (entities'[i].kind = "prey" /\ player.sizeTier >= 4
                                               /\ run'.timeSeconds >= 12000) =>
                       entities'[i].sizeClass # 1
                /\ (entities'[i].kind = "predator" /\ player.sizeTier >= 3
                                                   /\ run'.timeSeconds >= 10000) =>
                       entities'[i].sizeClass >= 3]_vars

\* a tier-3 player before 10 s and a predator-channel fish of class 2 that the
\* last tick spawned at the edge
SpawnSizesFollowTierAfterEarlyRunWitness ==
    /\ op = "tickGame"
    /\ run.timeSeconds < 10000
    /\ player.sizeTier = 3
    /\ spawnTimers.predator = 0
    /\ \E i \in DOMAIN entities : /\ entities[i].id = nextEntityId - 1
                                  /\ entities[i].kind = "predator"
                                  /\ entities[i].sizeClass = 2

\* the sum of the amounts of the score events of a list
RECURSIVE ScoreAmounts(_)
ScoreAmounts(events) ==
    IF events = <<>> THEN 0
    ELSE (IF Head(events).type = "score" THEN Head(events).amount ELSE 0)
         + ScoreAmounts(Tail(events))

(* C34: every change of run.score comes with score events of the same       *)
(* amount in the same tick: a tick raises the score by exactly the sum of   *)
(* the amounts of the score events it emits, and outside a tick the score   *)
(* only changes by being reset to 0 for a new run, so the score of a run is *)
(* the sum of the score events emitted since it started.                    *)
ScoreIsSumOfScoreEvents ==
    /\ [][op' = "tickGame" => run'.score = run.score + ScoreAmounts(pendingEvents')]_vars
    /\ [][op' # "tickGame" =>
             \/ run'.score = run.score
             \/ run'.score = 0 /\ pendingEvents' = <<>>]_vars

\* a tick of a run with points already scored that emits two score events
\* (a tail hit and its kill bonus) on top of them
ScoreIsSumOfScoreEventsWitness ==
    /\ op = "tickGame"
    /\ HasEvent("apex-killed")
    /\ CountEvents(pendingEvents, "score") >= 2
    /\ ScoreAmounts(pendingEvents) > 0
    /\ run.score > ScoreAmounts(pendingEvents)

(* C35: a tick takes at most one life: it emits at most one player-hit      *)
(* event and at most one game-over event, even when several hostile         *)
(* entities overlap the player at once, and player.lives is never negative. *)
OneLifePerTick ==
    /\ player.lives >= 0
    /\ op = "tickGame" => /\ CountEvents(pendingEvents, "player-hit") <= 1
                          /\ CountEvents(pendingEvents, "game-over") <= 1

\* the radius of each tier, as tabulated
RadiusOfTier(tier) ==
    CASE tier = 1 -> 9 [] tier = 2 -> 12 [] tier = 3 -> 17 [] tier = 4 -> 22 [] OTHER -> 31

(* C36: after every tick of a run the player's size tier is                 *)
(* min(5, 2 + floor(score / 1000)), nextGrowthScore is 1000 * (sizeTier - 1) *)
(* and the player's radius is the tabulated radius of the tier (9, 12, 17,  *)
(* 22, 31 for tiers 1..5).                                                  *)
GrowthNeverLagsScore ==
    (op = "tickGame" /\ mode # "title") =>
        /\ player.sizeTier = (IF 2 + run.score \div 1000 < 5 THEN 2 + run.score \div 1000 ELSE 5)
        /\ run.nextGrowthScore = 1000 * (player.sizeTier - 1)
        /\ player.radius = RadiusOfTier(player.sizeTier)

\* a tick whose points took the player up a tier
GrowthNeverLagsScoreWitness ==
    /\ op = "tickGame"
    /\ mode = "playing"
    /\ HasEvent("growth")
    /\ HasEvent("score")
    /\ player.sizeTier \in 3..5
    /\ run.score - ScoreAmounts(pendingEvents) < 1000 * (player.sizeTier - 2)

(* C37: every apex in a state returned by tickGame has 0 < health <=        *)
(* maxHealth; an apex whose health reaches 0 or below is removed in the     *)
(* tick of the hit and is in no returned state.                             *)
LivingApexHasHealth ==
    op = "tickGame" =>
        /\ \A i \in DOMAIN entities :
              entities[i].kind = "apex" =>
                  /\ entities[i].combat[1].health > 0
                  /\ entities[i].combat[1].health <= entities[i].combat[1].maxHealth
        /\ \A k \in DOMAIN pendingEvents :
              (pendingEvents[k].type = "apex-hit" /\ pendingEvents[k].health <= 0) =>
                  \A i \in DOMAIN entities : entities[i].id # pendingEvents[k].entityId

\* a tick that kills one apex with a tail hit while another apex lives on
LivingApexHasHealthWitness ==
    /\ op = "tickGame"
    /\ \E k \in DOMAIN pendingEvents :
          /\ pendingEvents[k].type = "apex-hit"
          /\ pendingEvents[k].health = 0
          /\ \A i \in DOMAIN entities : entities[i].id # pendingEvents[k].entityId
    /\ \E i \in DOMAIN entities : entities[i].kind = "apex"

\* a fish of class 1 or 2
SmallFish(kind, sizeClass) == kind \in {"prey", "predator"} /\ sizeClass \in {1, 2}

\* a run of the given difficulty at run time t, with a score past every
\* threshold of the unlock table
EarlyRun(key, tier, t) ==
    [difficulty |-> [key |-> key], player |-> [sizeTier |-> tier],
     run |-> [timeSeconds |-> t, score |-> 9000]]

(* C38: while run.timeSeconds < 10 no player-hit occurs, on any difficulty: *)
(* every entity in the world is then a prey or predator of class 1 or 2     *)
(* (apex and hazards are locked), which a player of tier 2 or more eats;    *)
(* the tier never falls below 2, so at any later time too a contact with a  *)
(* fish of class 1 or 2 costs no life.                                      *)
NoHitInFirstTenSeconds ==
    /\ player.sizeTier >= 2
    /\ mode = "title" =>
          \A key \in DifficultyKeys : \A tier \in SpawnTiers : \A t \in {0, 5000, 9990} :
             /\ ~isKindUnlocked(EarlyRun(key, tier, t), "apex")
             /\ ~isKindUnlocked(EarlyRun(key, tier, t), "hazard")
             /\ \A r \in Draws :
                   /\ pickNpcSizeForSpawn(EarlyRun(key, tier, t), "prey", r) \in {1, 2}
                   /\ pickNpcSizeForSpawn(EarlyRun(key, tier, t), "predator", r) \in {1, 2}
    /\ (mode # "title" /\ run.timeSeconds < 10000) =>
          /\ \A i \in DOMAIN entities : SmallFish(entities[i].kind, entities[i].sizeClass)
          /\ op = "tickGame" =>
                /\ ~HasEvent("player-hit")
                /\ ~HasEvent("game-over")
                /\ \A k \in DOMAIN collisions : SmallFish(collisions[k].kind, collisions[k].sizeClass)
    /\ op = "tickGame" =>
          \A k \in DOMAIN collisions :
             (SmallFish(collisions[k].kind, collisions[k].sizeClass) /\ collisions[k].overlap) =>
                 /\ Unhurt(collisions[k])
                 /\ collisions[k].consumed

\* before 10 s the tick spawned a predator-channel fish and the player ate a
\* fish it overlapped
NoHitInFirstTenSecondsWitness ==
    /\ op = "tickGame"
    /\ mode = "playing"
    /\ run.timeSeconds < 10000
    /\ HasEvent("eat")
    /\ \E k \in DOMAIN collisions : collisions[k].overlap
    /\ \E i \in DOMAIN entities : /\ entities[i].id = nextEntityId - 1
                                  /\ entities[i].kind = "predator"
                                  /\ spawnTimers.predator < 100

(* C39: while the hit cooldown of an apex is running, a player who overlaps *)
(* that apex in tail-hit position is unaffected: the contact neither        *)
(* damages the apex nor costs the player a life.                            *)
TailContactInCooldownIsHarmless ==
    op = "tickGame" =>
        \A k \in DOMAIN collisions :
           (/\ collisions[k].kind = "apex"
            /\ collisions[k].overlap
            /\ collisions[k].tailOpen
            /\ ~collisions[k].cooldownReady) =>
               /\ Unhurt(collisions[k])
               /\ collisions[k].events = <<>>

\* the fatal contact of the last tick: the first one to leave no life
FatalContact(log, k) ==
    /\ log[k].livesAfter <= 0
    /\ log[k].livesBefore > 0

(* C40: whenever mode is gameOver, player.lives <= 0; in the tick that ends *)
(* the run nothing is applied after the fatal hit: no extra life, no growth *)
(* and no change of the score.                                              *)
NothingAfterFatalHit ==
    /\ mode = "gameOver" => player.lives <= 0
    /\ (op = "tickGame" /\ mode = "gameOver") =>
          \A k \in DOMAIN collisions :
             FatalContact(collisions, k) =>
                 /\ run.score = collisions[k].scoreAfter
                 /\ ~HasEvent("extra-life")
                 /\ ~HasEvent("growth")

============================================================================
